---------------------------- MODULE Spec2Model ----------------------------
(***************************************************************************)
(* A model of the document data-extraction and template-population         *)
(* pipeline of CharnessSimple: the record merger, the aggregation of the   *)
(* four source documents, the web processors, the placeholder mapper, the  *)
(* DOCX fillers and the PDF form fillers.                                  *)
(*                                                                         *)
(* Python values are tagged records, so that values of different Python    *)
(* types can be compared:                                                  *)
(*   None          [kind |-> "none"]                                       *)
(*   str           [kind |-> "str",  s |-> "..."]                          *)
(*   float         [kind |-> "num",  n |-> cents]                          *)
(*   list          [kind |-> "list", items |-> << ... >>]                  *)
(*   dict          [kind |-> "dict", d |-> [key |-> value]]                *)
(* A Python dict is a function whose domain is its set of keys.            *)
(***************************************************************************)
EXTENDS Integers, Sequences, FiniteSets, TLC

VARIABLES
    \* merge_claim_data, called repeatedly on one base record
    base, new, result, mpc, calls,
    \* aggregate_claims_data: the four input files (ClaimsInputs), the files
    \* the loop has merged so far, in order, and the aggregated record
    paths, processed, combined,
    \* process_step: how the processor was entered, the step, the uploaded
    \* files, the position in the handler, the classified files, the
    \* identified templates, the exception raised, the steps that completed
    \* and the output files written
    entry, step_key, uploads, apc, ip, files_by_type, templates, error,
    trace, written,
    \* format_data_for_template: the aggregated record, datetime.now(), the
    \* mapping returned
    data, now, formatted, fpc,
    \* a DOCX filler: which one, the template, the document being filled,
    \* the items of the placeholder mapping
    filler, template, docx, placeholders, dpc,
    \* a PDF filler: which one, the pages of the template, what it is given,
    \* the writer (the pages being filled and the updates made), the
    \* exception raised
    pfiller, form, pinputs, writer, ppc, perror,
    \* a call of a helper function: the function, its arguments, what it
    \* returned or raised
    callee, args, ret, hpc,
    \* a document generation call: the generator, the template files that
    \* exist, the defendant name of the case, the position in the call, the
    \* source documents parsed, the exception raised, the documents produced
    generator, assets, casename, gpc, parsed, gerror, produced,
    \* two concurrent invocations: what each is and where it stands, the
    \* module global OUTPUT_DIR of each process, the paths each invocation
    \* wrote
    invocation, OUTPUT_DIR, touched

vars == <<base, new, result, mpc, calls, paths, processed, combined,
          entry, step_key, uploads, apc, ip, files_by_type, templates, error,
          trace, written, data, now, formatted, fpc,
          filler, template, docx, placeholders, dpc,
          pfiller, form, pinputs, writer, ppc, perror,
          callee, args, ret, hpc,
          generator, assets, casename, gpc, parsed, gerror, produced,
          invocation, OUTPUT_DIR, touched>>

mergeVars == <<base, new, result, mpc, calls>>
aggVars == <<paths, processed, combined>>
appVars == <<entry, step_key, uploads, apc, ip, files_by_type, templates,
             error, trace, written>>

fmtVars == <<data, now, formatted, fpc>>
docxVars == <<filler, template, docx, placeholders, dpc>>
pdfVars == <<pfiller, form, pinputs, writer, ppc, perror>>
helperVars == <<callee, args, ret, hpc>>
genVars == <<generator, assets, casename, gpc, parsed, gerror, produced>>
runVars == <<invocation, OUTPUT_DIR, touched>>

notMergeVars == <<aggVars, appVars, fmtVars, docxVars, pdfVars, helperVars, genVars, runVars>>
notAggVars == <<mergeVars, appVars, fmtVars, docxVars, pdfVars, helperVars, genVars, runVars>>
notAppVars == <<mergeVars, aggVars, fmtVars, docxVars, pdfVars, helperVars, genVars, runVars>>
notFmtVars == <<mergeVars, aggVars, appVars, docxVars, pdfVars, helperVars, genVars, runVars>>
notDocxVars == <<mergeVars, aggVars, appVars, fmtVars, pdfVars, helperVars, genVars, runVars>>
notPdfVars == <<mergeVars, aggVars, appVars, fmtVars, docxVars, helperVars, genVars, runVars>>
notHelperVars == <<mergeVars, aggVars, appVars, fmtVars, docxVars, pdfVars, genVars, runVars>>
notGenVars == <<mergeVars, aggVars, appVars, fmtVars, docxVars, pdfVars, helperVars, runVars>>
notRunVars == <<mergeVars, aggVars, appVars, fmtVars, docxVars, pdfVars, helperVars, genVars>>

-----------------------------------------------------------------------------
(* Strings: the Python str operations the code uses.                       *)

Char(s, i) == SubSeq(s, i, i)

LowerLetters == "abcdefghijklmnopqrstuvwxyz"
UpperLetters == "ABCDEFGHIJKLMNOPQRSTUVWXYZ"

LowerSet == {Char(LowerLetters, i) : i \in 1..26}
UpperSet == {Char(UpperLetters, i) : i \in 1..26}

ToUpperMap ==
    [c \in LowerSet |-> Char(UpperLetters, CHOOSE i \in 1..26 : Char(LowerLetters, i) = c)]
ToLowerMap ==
    [c \in UpperSet |-> Char(LowerLetters, CHOOSE i \in 1..26 : Char(UpperLetters, i) = c)]

UpperChar(c) == IF c \in LowerSet THEN ToUpperMap[c] ELSE c

LowerChar(c) == IF c \in UpperSet THEN ToLowerMap[c] ELSE c

RECURSIVE Upper(_)
Upper(s) == IF s = "" THEN "" ELSE UpperChar(Head(s)) \o Upper(Tail(s))

RECURSIVE Lower(_)
Lower(s) == IF s = "" THEN "" ELSE LowerChar(Head(s)) \o Lower(Tail(s))

\* sub in s
Contains(s, sub) ==
    \E i \in 1..(Len(s) - Len(sub) + 1) : SubSeq(s, i, i + Len(sub) - 1) = sub

StartsWith(s, prefix) ==
    Len(prefix) <= Len(s) /\ SubSeq(s, 1, Len(prefix)) = prefix

EndsWith(s, suffix) ==
    Len(suffix) <= Len(s) /\ SubSeq(s, Len(s) - Len(suffix) + 1, Len(s)) = suffix

\* s.replace(old, new) for a non-empty old: every occurrence, left to right
RECURSIVE Replace(_, _, _)
Replace(s, old, rep) ==
    IF Len(s) < Len(old) THEN s
    ELSE IF SubSeq(s, 1, Len(old)) = old
         THEN rep \o Replace(SubSeq(s, Len(old) + 1, Len(s)), old, rep)
         ELSE Head(s) \o Replace(Tail(s), old, rep)

\* s.strip(chars), chars a set of one-character strings
RECURSIVE LStrip(_, _)
LStrip(s, chars) ==
    IF s # "" /\ Head(s) \in chars THEN LStrip(Tail(s), chars) ELSE s

RECURSIVE RStrip(_, _)
RStrip(s, chars) ==
    IF s # "" /\ Char(s, Len(s)) \in chars
    THEN RStrip(SubSeq(s, 1, Len(s) - 1), chars) ELSE s

Strip(s, chars) == RStrip(LStrip(s, chars), chars)

Whitespace == {" ", "\t", "\n"}

-----------------------------------------------------------------------------
(* Python values and dicts.                                                *)

None == [kind |-> "none"]
Str(s) == [kind |-> "str", s |-> s]
Num(n) == [kind |-> "num", n |-> n]
List(items) == [kind |-> "list", items |-> items]
Dict(d) == [kind |-> "dict", d |-> d]

EmptyDict == [k \in {} |-> None]

\* d.get(k, default)
Get(d, k, default) == IF k \in DOMAIN d THEN d[k] ELSE default

\* d[k] = v
Put(d, k, v) == [x \in DOMAIN d \cup {k} |-> IF x = k THEN v ELSE d[x]]

\* d.update(e)
Update(d, e) == [x \in DOMAIN d \cup DOMAIN e |-> IF x \in DOMAIN e THEN e[x] ELSE d[x]]

-----------------------------------------------------------------------------
(* bc_claims.merge_claim_data                                              *)

SENTINELS == {"UNKNOWN", "UNKNOWN NAME", "UNKNOWN ADDRESS"}

\* mutant: the sentinel test compares the string as written
is_meaningful_exact_case(value) ==
    IF value.kind = "none" THEN FALSE
    ELSE IF value.kind = "str" /\ value.s = "" THEN FALSE
    ELSE IF value.kind = "str" /\ value.s \in SENTINELS THEN FALSE
    ELSE IF value.kind = "list" THEN value.items # <<>>
    ELSE TRUE

is_meaningful(value) ==
    IF value.kind = "none" THEN FALSE
    ELSE IF value.kind = "str" /\ value.s = "" THEN FALSE
    ELSE IF value.kind = "str" /\ Upper(value.s) \in SENTINELS THEN FALSE
    ELSE IF value.kind = "list" THEN value.items # <<>>
    ELSE TRUE

\* mutant: a key that base already holds is kept (first value wins)
RECURSIVE merge_first_wins(_, _)
merge_first_wins(b, n) ==
    [k \in DOMAIN b \cup {x \in DOMAIN n : is_meaningful(n[x])} |->
        IF k \in DOMAIN b THEN b[k] ELSE n[k]]

\* The loop assigns base[key] once per key of new, and no assignment reads
\* another key, so the result is given key by key.
RECURSIVE merge_claim_data(_, _)
merge_claim_data(b, n) ==
    [k \in DOMAIN b \cup {x \in DOMAIN n : is_meaningful(n[x])} |->
        IF k \in DOMAIN n /\ is_meaningful(n[k])
        THEN IF n[k].kind = "list" THEN n[k]
             ELSE IF n[k].kind = "dict"
                  THEN Dict(merge_claim_data(Get(b, k, Dict(EmptyDict)).d, n[k].d))
                  ELSE n[k]
        ELSE b[k]]

-----------------------------------------------------------------------------
(* Numbers as text.  An amount is an integer number of cents: the amounts  *)
(* the extractors read match \d+\.\d{2}.                                   *)

Digits == "0123456789"

IsDigit(c) == \E i \in 1..10 : Char(Digits, i) = c

DigitChar(d) == Char(Digits, d + 1)

DigitVal(c) == (CHOOSE i \in 1..10 : Char(Digits, i) = c) - 1

\* str(n) for n >= 0
RECURSIVE NatToStr(_)
NatToStr(n) == IF n < 10 THEN DigitChar(n) ELSE NatToStr(n \div 10) \o DigitChar(n % 10)

\* the "," grouping of format(n, ",")
RECURSIVE Grouped(_)
Grouped(n) ==
    IF n < 1000 THEN NatToStr(n)
    ELSE Grouped(n \div 1000) \o "," \o DigitChar((n % 1000) \div 100)
             \o DigitChar((n % 100) \div 10) \o DigitChar(n % 10)

\* f"{amount:,.2f}" of an amount of whole cents
FormatCents(c) ==
    (IF c < 0 THEN "-" ELSE "")
        \o Grouped((IF c < 0 THEN -c ELSE c) \div 100) \o "."
        \o DigitChar(((IF c < 0 THEN -c ELSE c) % 100) \div 10)
        \o DigitChar((IF c < 0 THEN -c ELSE c) % 10)

-----------------------------------------------------------------------------
(* The text of a source PDF, as the matches of the extractors' patterns in *)
(* it ("" or << >>: the pattern does not match; an amount of -1: no match). *)

NoText ==
    [completes |-> "",       \* "This completes the file for (.+)"
     phone |-> "",           \* \b\d{10}\b
     pay_dates |-> <<>>,     \* date tokens of the New Payments section
     chg_dates |-> <<>>,     \* date tokens of the New Transactions section
     range |-> <<>>,         \* the first pair of dates with a year
     block |-> <<>>,         \* the mailing block found from the bottom: name, address
     charge_card |-> FALSE,  \* "charge card" in text.lower()
     card_line |-> "",       \* the first line naming a card
     previous_balance |-> -1, interest |-> -1, fees |-> -1, payments |-> -1,
     new_balance |-> -1,
     last_five |-> "",       \* XXXX XXXXX\d (\d{5})
     acct_range |-> <<>>,    \* the pair of dates after the account digits
     rate |-> "",            \* Annual Interest Rate
     subject |-> <<>>,       \* Subject SURNAME GIVEN: surname, given
     alt |-> <<>>,           \* Surname ... Given Name(s) ...: surname, given
     aka_entries |-> <<>>]   \* the X-Ref AKA entries, each a sequence of words

\* re.sub(r"([A-Za-z]{3})(\d{1,2})", r"\1 \2", token) of a date token
\* "Mon" \s? digits: a space is put between the month and an adjacent day
SpaceMonthDay(token) ==
    IF Len(token) >= 4 /\ IsDigit(Char(token, 4))
    THEN SubSeq(token, 1, 3) \o " " \o SubSeq(token, 4, Len(token))
    ELSE token

extract_mrp_data(text) ==
    LET r1 == IF Len(text.pay_dates) >= 2
              THEN [last_payment_date |->
                      Str("Payment Transaction Date: "
                          \o SpaceMonthDay(text.pay_dates[Len(text.pay_dates) - 1])
                          \o ", Posting Date: "
                          \o SpaceMonthDay(text.pay_dates[Len(text.pay_dates)]))]
              ELSE EmptyDict
        r2 == IF text.range # <<>>
              THEN [opening_date |-> Str(text.range[1]), closing_date |-> Str(text.range[2])]
              ELSE EmptyDict
    IN  Update(r1, r2)

extract_mrc_data(text) ==
    LET r1 == IF Len(text.chg_dates) >= 2
              THEN [last_charge_date |->
                      Str("Transaction Date: "
                          \o SpaceMonthDay(text.chg_dates[Len(text.chg_dates) - 1])
                          \o ", Posting Date: "
                          \o SpaceMonthDay(text.chg_dates[Len(text.chg_dates)]))]
              ELSE EmptyDict
        r2 == IF text.range # <<>>
              THEN [opening_date |-> Str(text.range[1]), closing_date |-> Str(text.range[2])]
              ELSE EmptyDict
    IN  Update(r1, r2)

\* the {"surname", "given_name", "full_name"} entry of names_in_order
NameEntry(surname, given) ==
    [surname |-> surname, given_name |-> given, full_name |-> given \o " " \o surname]

RECURSIVE JoinWords(_)
JoinWords(ws) ==
    IF ws = <<>> THEN ""
    ELSE IF Len(ws) = 1 THEN ws[1] ELSE ws[1] \o " " \o JoinWords(Tail(ws))

RECURSIVE AkaNames(_)
AkaNames(entries) ==
    IF entries = <<>> THEN <<>>
    ELSE (IF Len(entries[1]) >= 2
          THEN <<NameEntry(entries[1][1], JoinWords(Tail(entries[1])))>>
          ELSE <<>>) \o AkaNames(Tail(entries))

extract_cbr_data(text) ==
    LET r1 == IF text.completes # "" THEN [name |-> Str(text.completes)] ELSE EmptyDict
        r2 == IF text.phone # "" THEN [phone |-> Str(text.phone)] ELSE EmptyDict
        first == IF text.subject # <<>>
                 THEN <<NameEntry(text.subject[1], text.subject[2])>>
                 ELSE IF text.alt # <<>>
                      THEN <<NameEntry(text.alt[1], text.alt[2])>>
                      ELSE <<>>
        names_in_order == first \o AkaNames(text.aka_entries)
        r3 == IF names_in_order # <<>>
              THEN [name |-> Str(names_in_order[1].full_name),
                    akas |-> List(Tail(names_in_order))]
              ELSE EmptyDict
    IN  Update(Update(r1, r2), r3)

\* _extract_amount: float(match) or None
extract_amount(cents) == IF cents >= 0 THEN Num(cents) ELSE None

extract_mrs_data(text) ==
    LET r1 == IF text.block # <<>>
              THEN [name |-> Str(text.block[1]), address |-> Str(text.block[2])]
              ELSE EmptyDict
        r2 == [account_type |-> Str(IF text.charge_card THEN "Charge Card" ELSE "Credit Card")]
        r3 == IF text.card_line # "" THEN [card_name |-> Str(text.card_line)] ELSE EmptyDict
        r4 == [previous_balance |-> extract_amount(text.previous_balance),
               interest |-> extract_amount(text.interest),
               fees |-> extract_amount(text.fees),
               payments |-> extract_amount(text.payments)]
        r5 == IF text.new_balance >= 0
              THEN [total_indebtedness |-> Num(text.new_balance),
                    outstanding_balance |-> Str(FormatCents(text.new_balance))]
              ELSE EmptyDict
        r6 == IF text.last_five # ""
              THEN Update([subject_line |-> Str("XX1 " \o text.last_five)],
                          IF text.acct_range # <<>>
                          THEN [opening_date |-> Str(text.acct_range[1]),
                                closing_date |-> Str(text.acct_range[2])]
                          ELSE EmptyDict)
              ELSE EmptyDict
        r7 == IF text.rate # "" THEN [annual_interest_rate |-> Str(text.rate)] ELSE EmptyDict
    IN  Update(Update(Update(Update(Update(Update(r1, r2), r3), r4), r5), r6), r7)

extract_basic_info(text) ==
    Update(IF text.completes # "" THEN [name |-> Str(text.completes)] ELSE EmptyDict,
           IF text.phone # "" THEN [phone |-> Str(text.phone)] ELSE EmptyDict)

\* the keys of FILE_EXTRACTORS in their order
FILE_EXTRACTORS == <<"MRP", "MRC", "MRS", "CBR">>

\* the first key of FILE_EXTRACTORS that the upper-cased file name contains,
\* "" (None) when there is none
FileTypeOf(name) ==
    LET hits == {i \in 1..Len(FILE_EXTRACTORS) : Contains(Upper(name), FILE_EXTRACTORS[i])}
    IN  IF hits = {} THEN ""
        ELSE FILE_EXTRACTORS[CHOOSE i \in hits : \A j \in hits : i <= j]

RunExtractor(file_type, text) ==
    CASE file_type = "MRP" -> extract_mrp_data(text)
      [] file_type = "MRC" -> extract_mrc_data(text)
      [] file_type = "MRS" -> extract_mrs_data(text)
      [] file_type = "CBR" -> extract_cbr_data(text)
      [] OTHER -> EmptyDict

\* pdf_path is a record [name, text]
extract_bc_claims_data(pdf_path) ==
    LET file_type == FileTypeOf(pdf_path.name)
        a1 == Update([akas |-> List(<<>>)], RunExtractor(file_type, pdf_path.text))
        a2 == Update(a1, extract_basic_info(pdf_path.text))
        a3 == Put(a2, "name1", Get(a2, "name", Str("UNKNOWN")))
        a4 == Put(a3, "address1", Get(a3, "address", Str("UNKNOWN")))
    IN  Put(a4, "file_type", Str(IF file_type # "" THEN file_type ELSE "UNKNOWN"))


-----------------------------------------------------------------------------
(* SpecMerge: merge_claim_data folded over records drawn from bounded sets. *)
(* Keys are typed as the extractors type them (a key that holds a mapping   *)
(* in one record holds a mapping in every record): merging a mapping into   *)
(* an existing string or number raises TypeError in the nested call and is  *)
(* not part of this input space.                                            *)

MaxMerges == 2

Aka1 == [surname |-> "ROY", given_name |-> "BOB", full_name |-> "BOB ROY"]

NameValues == {Str(""), Str("UNKNOWN"), Str("unknown"), Str("Unknown Name"),
               Str("Ann Lee"), Str("Bob Roy")}
AkasValues == {List(<<>>), List(<<Aka1>>)}
BalanceValues == {None, Num(0), Num(125050)}
ContactValues == {Dict(EmptyDict), Dict([phone |-> Str("6045550100")]),
                  Dict([phone |-> Str("")])}

Absent == [kind |-> "absent"]

\* A record over the keys name, akas, previous_balance, contact; each key is
\* absent or holds one of its values.
MkRecord(nm, ak, bal, ct) ==
    [k \in {x \in {"name"} : nm # Absent} \cup {x \in {"akas"} : ak # Absent}
           \cup {x \in {"previous_balance"} : bal # Absent}
           \cup {x \in {"contact"} : ct # Absent} |->
        CASE k = "name" -> nm
          [] k = "akas" -> ak
          [] k = "previous_balance" -> bal
          [] OTHER -> ct]

NewRecords ==
    {MkRecord(nm, ak, bal, ct) :
        nm \in NameValues \cup {Absent}, ak \in AkasValues \cup {Absent},
        bal \in BalanceValues \cup {Absent}, ct \in ContactValues \cup {Absent}}

IdleAgg == paths = <<>> /\ processed = <<>> /\ combined = EmptyDict

NoFile == [name |-> "", text |-> ""]
NoError == [type |-> "", msg |-> ""]
NoTemplates == [schedule |-> NoFile, claim |-> NoFile]

IdleHelpers ==
    callee = "" /\ args = <<>> /\ ret = None /\ hpc = "idle"

IdleGenerate ==
    generator = "" /\ assets = {} /\ casename = "" /\ gpc = "idle" /\ parsed = {} /\ gerror = "" /\ produced = {}

IdleRuns ==
    invocation = <<>> /\ OUTPUT_DIR = <<>> /\ touched = {}

IdlePdf ==
    pfiller = "" /\ form = <<>> /\ pinputs = <<>> /\ ppc = "idle" /\ perror = ""
    /\ writer = [pages |-> <<>>, updates |-> <<>>]

IdleDocx ==
    filler = "" /\ template = <<>> /\ docx = <<>> /\ placeholders = <<>> /\ dpc = "idle"

IdleFormat ==
    data = EmptyDict /\ now = [year |-> 0, month |-> 0, day |-> 0]
    /\ formatted = EmptyDict /\ fpc = "idle"

IdleApp ==
    /\ entry = "" /\ step_key = "" /\ uploads = <<>> /\ apc = "idle" /\ ip = 0
    /\ files_by_type = EmptyDict /\ templates = NoTemplates
    /\ error = NoError /\ trace = <<>> /\ written = {}

InitMerge ==
    /\ IdleRuns
    /\ IdleGenerate
    /\ IdleHelpers
    /\ IdlePdf
    /\ IdleAgg
    /\ IdleApp
    /\ IdleFormat
    /\ IdleDocx
    /\ base = EmptyDict
    /\ new \in NewRecords
    /\ result = EmptyDict
    /\ mpc = "call"
    /\ calls = 1

\* merge_claim_data(base, new): base is mutated in place and returned; the
\* model keeps the record as it was before the call in base.
MergeCall ==
    /\ mpc = "call"
    /\ result' = merge_claim_data(base, new)
    /\ mpc' = "returned"
    /\ UNCHANGED <<base, new, calls>>
    /\ UNCHANGED notMergeVars

\* the caller passes the returned record to the next call
MergeNext ==
    /\ mpc = "returned"
    /\ calls < MaxMerges
    /\ base' = result
    /\ new' \in NewRecords
    /\ mpc' = "call"
    /\ calls' = calls + 1
    /\ UNCHANGED result
    /\ UNCHANGED notMergeVars

NextMerge == MergeCall \/ MergeNext

SpecMerge == InitMerge /\ [][NextMerge]_vars

-----------------------------------------------------------------------------
(* SpecAggregate: bc_claims.aggregate_claims_data over the files of a case. *)

IdleMerge ==
    base = EmptyDict /\ new = EmptyDict /\ result = EmptyDict /\ mpc = "idle" /\ calls = 0

MrpText1 == [NoText EXCEPT !.pay_dates = <<"Jan03", "Jan05", "Jan 6">>,
                           !.range = <<"Dec 07, 2023", "Jan 06, 2024">>]
MrpText2 == [NoText EXCEPT !.pay_dates = <<"Jan05">>, !.completes = "Unknown"]

MrcText1 == [NoText EXCEPT !.chg_dates = <<"Dec12", "Dec13">>,
                           !.range = <<"Jan 07, 2024", "Feb 06, 2024">>]
MrcText2 == [NoText EXCEPT !.phone = "6045550100", !.completes = "A. LEE"]

MrsText1 == [NoText EXCEPT !.block = <<"ANN LEE", "12 MAIN ST, VANCOUVER BC V5K 0A1">>,
                           !.card_line = "Cobalt Card",
                           !.previous_balance = 100000, !.interest = 1999,
                           !.fees = 0, !.payments = 5000, !.new_balance = 125050,
                           !.last_five = "21006",
                           !.acct_range = <<"Feb 07, 2024", "Mar 06, 2024">>,
                           !.rate = "19.99"]
MrsText2 == [NoText EXCEPT !.block = <<"Unknown Name", "1 ELM RD, BURNABY BC V5H 1A1">>,
                           !.charge_card = TRUE, !.last_five = "21006"]

CbrText1 == [NoText EXCEPT !.completes = "LEE, ANN", !.phone = "7785550199",
                           !.subject = <<"LEE", "ANN">>,
                           !.aka_entries = << <<"ROY", "ANN", "B">>, <<"LEIGH">> >>]
CbrText2 == [NoText EXCEPT !.alt = <<"LEE", "ANN/ANNIE">>]
CbrText3 == [NoText EXCEPT !.completes = "unknown", !.aka_entries = << <<"ROY", "ANN">> >>]

\* the files a case can supply for each argument of ClaimsInputs: the name
\* matches the argument's pattern of FILE_TYPE_PATTERNS
MrpFiles == {[name |-> "MRP.pdf", text |-> t] : t \in {MrpText1, MrpText2, NoText}}
MrcFiles == {[name |-> n, text |-> t] :
                n \in {"MRC.pdf", "mrp-mrc.pdf"}, t \in {MrcText1, MrcText2, NoText}}
MrsFiles == {[name |-> "Mrs.pdf", text |-> t] : t \in {MrsText1, MrsText2, NoText}}
CbrFiles == {[name |-> n, text |-> t] :
                n \in {"CBR.pdf", "Credit Report.pdf"},
                t \in {CbrText1, CbrText2, CbrText3, NoText}}

\* mutant: the credit report is merged first
AggregateOrderCbrFirst == <<"cbr", "mrp", "mrc", "mrs">>

\* for pdf_path in [paths.mrp, paths.mrc, paths.mrs, paths.cbr]
AggregateOrder == <<"mrp", "mrc", "mrs", "cbr">>

InitAggregate ==
    /\ IdleRuns
    /\ IdleGenerate
    /\ IdleHelpers
    /\ IdlePdf
    /\ IdleMerge
    /\ IdleApp
    /\ IdleFormat
    /\ IdleDocx
    /\ paths \in [mrp : MrpFiles, mrc : MrcFiles, mrs : MrsFiles, cbr : CbrFiles]
    /\ processed = <<>>
    /\ combined = EmptyDict

\* one iteration of the loop of aggregate_claims_data
AggregateStep ==
    /\ Len(processed) < Len(AggregateOrder)
    /\ LET field == AggregateOrder[Len(processed) + 1]
           extracted == extract_bc_claims_data(paths[field])
       IN  /\ combined' = merge_claim_data(combined, extracted)
           /\ processed' = Append(processed, field)
    /\ UNCHANGED paths
    /\ UNCHANGED notAggVars

NextAggregate == AggregateStep

SpecAggregate == InitAggregate /\ [][NextAggregate]_vars


-----------------------------------------------------------------------------
(* Claims about merge_claim_data (SpecMerge).                              *)

\* the entry of key k is in r exactly as it was in b
EntryUnchanged(b, r, k) ==
    /\ (k \in DOMAIN r) = (k \in DOMAIN b)
    /\ k \in DOMAIN b => r[k] = b[k]

\* "non-empty and not one of the reserved sentinels", read as written
LiteralMeaningful(v) ==
    /\ v.kind # "none"
    /\ v.kind = "str" => v.s # "" /\ v.s \notin {"UNKNOWN", "UNKNOWN NAME", "UNKNOWN ADDRESS"}
    /\ v.kind = "list" => Len(v.items) > 0
    /\ v.kind = "dict" => DOMAIN v.d # {}

\* the sentinels compared ignoring case; an empty mapping counts as a value
SkippedValue(v) ==
    \/ v.kind = "none"
    \/ v.kind = "str" /\ v.s = ""
    \/ v.kind = "str" /\ Lower(v.s) \in {"unknown", "unknown name", "unknown address"}
    \/ v.kind = "list" /\ Len(v.items) = 0

\* r is b with the scalar or list v stored under k
Stored(r, k, v) == k \in DOMAIN r /\ r[k] = v

\* C3 as stated: a key of new is skipped iff its value is not meaningful, a
\* value being meaningful iff it is non-empty and is not one of "UNKNOWN",
\* "UNKNOWN NAME", "UNKNOWN ADDRESS".
C3_SkipIffNotMeaningful_AsStated ==
    mpc = "returned" =>
        \A k \in DOMAIN new :
            IF LiteralMeaningful(new[k])
            THEN k \in DOMAIN result /\ (new[k].kind # "dict" => result[k] = new[k])
            ELSE EntryUnchanged(base, result, k)

\* C3 amended: merge_claim_data leaves base's entry for a key of new as it
\* was iff the value is None, the empty string, a string equal ignoring case
\* to one of the sentinels, or an empty list.  Every other value is taken: a
\* scalar or list replaces the entry, a mapping (an empty one too) is merged
\* by the same rule into the nested mapping, which is created when absent.
\* Keys that new does not hold keep their entries.
C3_SkipIffNotMeaningful ==
    mpc = "returned" =>
        /\ \A k \in DOMAIN new :
            IF SkippedValue(new[k])
            THEN EntryUnchanged(base, result, k)
            ELSE IF new[k].kind = "dict"
                 THEN /\ k \in DOMAIN result
                      /\ result[k].kind = "dict"
                      /\ LET old == Get(base, k, Dict(EmptyDict)).d
                             got == result[k].d
                         IN  /\ \A j \in DOMAIN new[k].d :
                                    IF SkippedValue(new[k].d[j])
                                    THEN EntryUnchanged(old, got, j)
                                    ELSE Stored(got, j, new[k].d[j])
                             /\ \A j \in (DOMAIN old \cup DOMAIN got) \ DOMAIN new[k].d :
                                    EntryUnchanged(old, got, j)
                 ELSE Stored(result, k, new[k])
        /\ \A k \in (DOMAIN base \cup DOMAIN result) \ DOMAIN new :
            EntryUnchanged(base, result, k)

\* a call that skipped a lower-case sentinel and an empty list over held
\* values, and created an empty nested mapping
C3_Witness ==
    /\ mpc = "returned"
    /\ "name" \in DOMAIN new /\ new["name"] = Str("unknown")
    /\ "name" \in DOMAIN base /\ base["name"] = Str("Ann Lee")
    /\ result["name"] = Str("Ann Lee")
    /\ "akas" \in DOMAIN new /\ new["akas"] = List(<<>>)
    /\ "akas" \in DOMAIN base /\ result["akas"] = List(<<Aka1>>)
    /\ "contact" \in DOMAIN new /\ new["contact"] = Dict(EmptyDict)
    /\ "contact" \notin DOMAIN base /\ result["contact"] = Dict(EmptyDict)

-----------------------------------------------------------------------------
(* Claims about aggregate_claims_data (SpecAggregate).                      *)

RecordKeys ==
    {"name", "address", "phone", "akas", "opening_date", "closing_date",
     "last_payment_date", "last_charge_date", "account_type", "card_name",
     "previous_balance", "interest", "fees", "payments", "total_indebtedness",
     "outstanding_balance", "subject_line", "annual_interest_rate",
     "name1", "address1", "file_type"}

\* the records extracted from the files merged so far, in order
MergedDocs == [i \in 1..Len(processed) |-> extract_bc_claims_data(paths[processed[i]])]

\* the positions in docs of the records that supply a value to keep for key k
Suppliers(docs, k) ==
    {i \in DOMAIN docs : k \in DOMAIN docs[i] /\ ~SkippedValue(docs[i][k])}

MaxOf(S) == CHOOSE i \in S : \A j \in S : j <= i

\* C1: at every point of the fold a key of the aggregated record holds the
\* value of the most recently merged document that supplied a meaningful
\* value for it (and is absent when none did), so a key that holds a
\* meaningful value never loses it to an absent or non-meaningful one.
C1_LastMeaningfulWins ==
    LET docs == MergedDocs
    IN  /\ DOMAIN combined \subseteq RecordKeys
        /\ \A k \in RecordKeys :
            LET sup == Suppliers(docs, k)
            IN  IF sup = {}
                THEN k \notin DOMAIN combined
                ELSE /\ k \in DOMAIN combined
                     /\ combined[k] = docs[MaxOf(sup)][k]
                     /\ ~SkippedValue(combined[k])

\* all four documents are merged; the name held was overwritten by a later
\* document's name and then survived a non-meaningful name
C1_Witness ==
    /\ Len(processed) = 4
    /\ LET docs == MergedDocs
           sup == Suppliers(docs, "name")
       IN  /\ Cardinality(sup) >= 2
           /\ \E i \in 1..4 : i > MaxOf(sup) /\ "name" \in DOMAIN docs[i]
           /\ \E i \in sup : docs[i]["name"] # combined["name"]

\* the place of each document type in the fixed order
TypeRank == [mrp |-> 1, mrc |-> 2, mrs |-> 3, cbr |-> 4]

\* the record extracted from each argument of ClaimsInputs
InputDocs == [f \in DOMAIN paths |-> extract_bc_claims_data(paths[f])]

Supplies(docs, f, k) == k \in DOMAIN docs[f] /\ ~SkippedValue(docs[f][k])

\* C2: the documents are merged in the order payment report, charge report,
\* statement, credit report, and when several of them supply a meaningful
\* value for a key the aggregated record ends with the value of the one that
\* is latest in that order.
C2_FixedOrderLaterWins ==
    /\ \A i \in 1..Len(processed) : TypeRank[processed[i]] = i
    /\ Len(processed) = 4 =>
        LET docs == InputDocs
        IN  \A k \in RecordKeys : \A f \in DOMAIN TypeRank :
                (Supplies(docs, f, k) /\ \A g \in DOMAIN TypeRank :
                        TypeRank[g] > TypeRank[f] => ~Supplies(docs, g, k))
                => k \in DOMAIN combined /\ combined[k] = docs[f][k]

\* the statement and the credit report name the debtor differently and so do
\* the payment report and the statement date the period: the later one is kept
C2_Witness ==
    /\ Len(processed) = 4
    /\ LET docs == InputDocs
       IN  /\ Supplies(docs, "mrs", "name") /\ Supplies(docs, "cbr", "name")
           /\ docs["mrs"]["name"] # docs["cbr"]["name"]
           /\ combined["name"] = docs["cbr"]["name"]
           /\ Supplies(docs, "mrp", "closing_date") /\ Supplies(docs, "mrs", "closing_date")
           /\ docs["mrp"]["closing_date"] # docs["mrs"]["closing_date"]
           /\ combined["closing_date"] = docs["mrs"]["closing_date"]

-----------------------------------------------------------------------------
(* SpecApp: app.process_step for the two claims steps: _validate_files,    *)
(* then process_bc_claims or process_on_claims; the processors can also be *)
(* called directly with a list of uploads.                                 *)

\* Path(filename).suffix.lower()
RECURSIVE LastDot(_, _)
LastDot(s, i) == IF i = 0 THEN 0 ELSE IF Char(s, i) = "." THEN i ELSE LastDot(s, i - 1)

Suffix(filename) ==
    LET i == LastDot(filename, Len(filename)) IN
    IF i <= 1 \/ i = Len(filename) THEN "" ELSE Lower(SubSeq(filename, i, Len(filename)))

\* sep.join(items)
RECURSIVE Join(_, _)
Join(items, sep) ==
    IF items = <<>> THEN ""
    ELSE IF Len(items) = 1 THEN items[1]
    ELSE items[1] \o sep \o Join(Tail(items), sep)

Range(seq) == {seq[i] : i \in DOMAIN seq}

STEPS ==
    [on_claims |-> [label |-> "ON Claims", expected_files |-> 6,
                    allowed_extensions |-> <<".pdf", ".docx">>,
                    optional_extensions |-> <<>>, optional_max |-> 0],
     bc_claims |-> [label |-> "BC Claims", expected_files |-> 4,
                    allowed_extensions |-> <<".pdf">>,
                    optional_extensions |-> <<>>, optional_max |-> 0]]

ValueError(msg) == [type |-> "ValueError", msg |-> msg]

\* the loop of _validate_files over the uploaded files: the exception it
\* raises, or the number of files counted as required
RECURSIVE validate_loop(_, _, _, _)
validate_loop(step, files, required_count, optional_count) ==
    IF files = <<>>
    THEN IF required_count # step.expected_files
         THEN ValueError("Expected " \o NatToStr(step.expected_files)
                         \o " required file(s) for " \o step.label
                         \o ", received " \o NatToStr(required_count) \o ".")
         ELSE NoError
    ELSE LET filename == Head(files).name
             suffix == Suffix(filename)
             allowed == Join(step.allowed_extensions \o step.optional_extensions, ", ")
         IN  IF filename = "" THEN ValueError("Missing file upload.")
             ELSE IF suffix \in Range(step.allowed_extensions)
             THEN validate_loop(step, Tail(files), required_count + 1, optional_count)
             ELSE IF suffix \in Range(step.optional_extensions)
                     /\ optional_count < step.optional_max
             THEN validate_loop(step, Tail(files), required_count, optional_count + 1)
             ELSE ValueError("Invalid file type for " \o filename \o ". Allowed: "
                             \o (IF allowed = "" THEN "none" ELSE allowed))

\* _validate_files: the exception raised, NoError when the files are saved
validate_files(step, files) ==
    LET min_required == step.expected_files
        max_allowed == step.expected_files + step.optional_max
    IN  IF Len(files) < min_required \/ Len(files) > max_allowed
        THEN IF step.optional_max # 0
             THEN ValueError("Expected between " \o NatToStr(min_required) \o " and "
                             \o NatToStr(max_allowed) \o " files for " \o step.label
                             \o ", received " \o NatToStr(Len(files)) \o ".")
             ELSE ValueError("Expected " \o NatToStr(min_required) \o " file(s) for "
                             \o step.label \o ", received " \o NatToStr(Len(files)) \o ".")
        ELSE validate_loop(step, files, 0, 0)

REQUIRED_KEYS == <<"MRP", "MRC", "MRS", "CBR">>

\* the elif chain on the upper-cased file name: the key the file is stored
\* under, "" when no branch is taken
NameKey(filename, fbt) ==
    LET name == Upper(filename) IN
    IF Contains(name, "MRP") /\ "MRP" \notin DOMAIN fbt THEN "MRP"
    ELSE IF Contains(name, "MRC") /\ "MRC" \notin DOMAIN fbt THEN "MRC"
    ELSE IF Contains(name, "MRS") /\ "MRS" \notin DOMAIN fbt THEN "MRS"
    ELSE IF (Contains(name, "CBR") \/ Contains(name, "CREDIT REPORT"))
            /\ "CBR" \notin DOMAIN fbt THEN "CBR"
    ELSE ""

\* the loop over the files by name: files_by_type and the files no branch took
RECURSIVE ClassifyByName(_, _, _)
ClassifyByName(files, fbt, leftovers) ==
    IF files = <<>> THEN [files_by_type |-> fbt, leftovers |-> leftovers]
    ELSE LET key == NameKey(Head(files).name, fbt) IN
         IF key = ""
         THEN ClassifyByName(Tail(files), fbt, Append(leftovers, Head(files)))
         ELSE ClassifyByName(Tail(files), Put(fbt, key, Head(files)), leftovers)

\* the elif chain on the lower-cased text of a leftover PDF
TextKey(text, fbt) ==
    LET lowered == Lower(text) IN
    IF Contains(lowered, "new payments") /\ Contains(lowered, "total of payment activity")
       /\ "MRP" \notin DOMAIN fbt THEN "MRP"
    ELSE IF Contains(lowered, "new transactions for")
            /\ Contains(lowered, "total of new transactions")
            /\ "MRC" \notin DOMAIN fbt THEN "MRC"
    ELSE IF Contains(lowered, "statement of account") /\ Contains(lowered, "new balance")
            /\ "MRS" \notin DOMAIN fbt THEN "MRS"
    ELSE IF Contains(lowered, "this completes the file for")
            /\ "CBR" \notin DOMAIN fbt THEN "CBR"
    ELSE ""

RECURSIVE ClassifyByText(_, _)
ClassifyByText(leftovers, fbt) ==
    IF leftovers = <<>> THEN fbt
    ELSE LET key == TextKey(Head(leftovers).text, fbt) IN
         IF key = "" THEN ClassifyByText(Tail(leftovers), fbt)
         ELSE ClassifyByText(Tail(leftovers), Put(fbt, key, Head(leftovers)))

\* [key for key in ("MRP", "MRC", "MRS", "CBR") if key not in files_by_type]
missing_all_keys(fbt) == IF DOMAIN fbt = Range(REQUIRED_KEYS) THEN <<>> ELSE REQUIRED_KEYS

missing_keys(fbt) ==
    LET NotIn(key) == key \notin DOMAIN fbt IN SelectSeq(REQUIRED_KEYS, NotIn)

BcMissingError(missing) ==
    ValueError("Missing required files for BC Claims: " \o Join(missing, ", ")
               \o " (ensure filenames include MRP, MRC, MRS, CBR).")

OnMissingError(missing) ==
    ValueError("Missing required files for ON Claims: " \o Join(missing, ", ")
               \o ". Ensure filenames include MRP, MRC, MRS, and Credit Report.")

TemplatesError == ValueError("Upload both Schedule A and ON Form 7A templates (DOCX).")

SCHEDULE_PLACEHOLDERS ==
    {"SIMPLE NAME INSERT", "DATE OF LAST CHARGE INSERT", "DATEOFLASTPAYMENTINSERT",
     "DEMAND LETTER DATE INSERT", "TOTALDEBTINSERT"}

CLAIM_PLACEHOLDERS ==
    {"LAST NAME INSERT", "FIRST NAME INSERT", "AKA INSERT", "PHONENOINSERT",
     "TODAYS DATE", "YEARENDINSERT"}

\* ontario_claims.identify_template on the text of the document: "" is None
identify_template(full_text) ==
    LET schedule_score == Cardinality({key \in SCHEDULE_PLACEHOLDERS : Contains(full_text, key)})
        claim_score == Cardinality({key \in CLAIM_PLACEHOLDERS : Contains(full_text, key)})
    IN  IF schedule_score = 0 /\ claim_score = 0 THEN ""
        ELSE IF schedule_score >= claim_score THEN "SCHEDULE" ELSE "CLAIM"

WithSuffix(files, suffix) ==
    LET Has(f) == Suffix(f.name) = suffix IN SelectSeq(files, Has)

\* the loop over docx_candidates that picks the two templates
RECURSIVE IdentifyTemplates(_, _)
IdentifyTemplates(candidates, t) ==
    IF candidates = <<>> THEN t
    ELSE LET docx_path == Head(candidates)
             identified == identify_template(docx_path.text)
             upper_name == Upper(docx_path.name)
         IN  IF identified = "SCHEDULE"
                \/ (Contains(upper_name, "SCHEDULE") /\ t.schedule = NoFile)
             THEN IdentifyTemplates(Tail(candidates),
                      IF t.schedule = NoFile THEN [t EXCEPT !.schedule = docx_path] ELSE t)
             ELSE IF identified = "CLAIM"
                     \/ ((Contains(upper_name, "CLAIM") \/ Contains(upper_name, "7A"))
                         /\ t.claim = NoFile)
             THEN IdentifyTemplates(Tail(candidates),
                      IF t.claim = NoFile THEN [t EXCEPT !.claim = docx_path] ELSE t)
             ELSE IdentifyTemplates(Tail(candidates), t)

\* the two templates process_on_claims ends up with, fallbacks included
ChooseTemplates(docx_candidates) ==
    LET t1 == IdentifyTemplates(docx_candidates, NoTemplates)
        t2 == IF t1.schedule = NoFile /\ docx_candidates # <<>>
              THEN [t1 EXCEPT !.schedule = docx_candidates[1]] ELSE t1
        NotSchedule(candidate) == candidate # t2.schedule
        others == SelectSeq(docx_candidates, NotSchedule)
    IN  IF t2.claim = NoFile /\ Len(docx_candidates) > 1 /\ others # <<>>
        THEN [t2 EXCEPT !.claim = others[1]] ELSE t2

\* the uploads of a case
MaxFewerFiles == 1
MaxExtraFiles == 1

BcPool ==
    <<[name |-> "MRP.pdf", text |-> ""],
      [name |-> "mrp-mrc.pdf", text |-> ""],
      [name |-> "Mrs.pdf", text |-> ""],
      [name |-> "Credit Report.pdf", text |-> ""],
      [name |-> "scan.pdf", text |-> "Statement of Account - New Balance"],
      [name |-> "MRS.docx", text |-> ""]>>

OnPool ==
    <<[name |-> "MRP.pdf", text |-> ""],
      [name |-> "MRC.pdf", text |-> ""],
      [name |-> "Mrs.pdf", text |-> ""],
      [name |-> "cbr.pdf", text |-> ""],
      [name |-> "scan.pdf", text |-> "Statement of Account - New Balance"],
      [name |-> "notes.pdf", text |-> "notes"],
      [name |-> "Schedule A.docx", text |-> "SIMPLE NAME INSERT owes TOTALDEBTINSERT"],
      [name |-> "Form.docx", text |-> "LAST NAME INSERT, FIRST NAME INSERT"],
      [name |-> "blank.docx", text |-> ""]>>

Reverse(seq) == [i \in 1..Len(seq) |-> seq[Len(seq) + 1 - i]]

\* the elements of pool at the positions in keep, in pool order
RECURSIVE Pick(_, _, _)
Pick(pool, keep, i) ==
    IF i > Len(pool) THEN <<>>
    ELSE (IF i \in keep THEN <<pool[i]>> ELSE <<>>) \o Pick(pool, keep, i + 1)

UploadsOf(pool, expected) ==
    {Pick(p, keep, 1) :
        p \in {pool, Reverse(pool)},
        keep \in {k \in SUBSET (1..Len(pool)) :
                    /\ Cardinality(k) >= expected - MaxFewerFiles
                    /\ Cardinality(k) <= expected + MaxExtraFiles}}

PoolOf(step) == IF step = "bc_claims" THEN BcPool ELSE OnPool

InitApp ==
    /\ IdleRuns
    /\ IdleGenerate
    /\ IdleHelpers
    /\ IdlePdf
    /\ IdleMerge
    /\ IdleAgg
    /\ IdleFormat
    /\ IdleDocx
    /\ entry \in {"route", "direct"}
    /\ step_key \in {"bc_claims", "on_claims"}
    /\ uploads \in UploadsOf(PoolOf(step_key), STEPS[step_key].expected_files)
    /\ apc = IF entry = "route" THEN "validate" ELSE "classify"
    /\ ip = 0
    /\ files_by_type = EmptyDict
    /\ templates = NoTemplates
    /\ error = NoError
    /\ trace = <<>>
    /\ written = {}

Raise(e) == apc' = "error" /\ error' = e

\* process_step: _validate_files, then the processor when it raised nothing
ValidateFiles ==
    /\ apc = "validate"
    /\ LET e == validate_files(STEPS[step_key], uploads) IN
       IF e # NoError
       THEN Raise(e)
       ELSE apc' = "classify" /\ UNCHANGED error
    /\ UNCHANGED <<entry, step_key, uploads, ip, files_by_type, templates, trace, written>>
    /\ UNCHANGED notAppVars

\* process_bc_claims up to the missing-files check
BcClassify ==
    /\ apc = "classify"
    /\ step_key = "bc_claims"
    /\ LET fbt == ClassifyByName(uploads, EmptyDict, <<>>).files_by_type
           missing == missing_keys(fbt)
       IN  /\ files_by_type' = fbt
           /\ IF missing # <<>>
              THEN Raise(BcMissingError(missing)) /\ UNCHANGED ip
              ELSE apc' = "run" /\ ip' = 1 /\ UNCHANGED error
    /\ UNCHANGED <<entry, step_key, uploads, templates, trace, written>>
    /\ UNCHANGED notAppVars

\* process_on_claims up to the missing-files check
OnClassify ==
    /\ apc = "classify"
    /\ step_key = "on_claims"
    /\ LET t == ChooseTemplates(WithSuffix(uploads, ".docx"))
           byName == ClassifyByName(WithSuffix(uploads, ".pdf"), EmptyDict, <<>>)
           fbt == ClassifyByText(byName.leftovers, byName.files_by_type)
           missing == missing_keys(fbt)
       IN  /\ templates' = t
           /\ IF t.schedule = NoFile \/ t.claim = NoFile
              THEN Raise(TemplatesError) /\ UNCHANGED <<ip, files_by_type, trace>>
              ELSE /\ files_by_type' = fbt
                   /\ trace' = IF byName.leftovers # <<>>
                               THEN Append(trace, "load_pdf_text") ELSE trace
                   /\ IF missing # <<>>
                      THEN Raise(OnMissingError(missing)) /\ UNCHANGED ip
                      ELSE apc' = "run" /\ ip' = 1 /\ UNCHANGED error
    /\ UNCHANGED <<entry, step_key, uploads, written>>
    /\ UNCHANGED notAppVars

\* the statements of process_bc_claims after the missing-files check, in
\* program order
BcProgramEagerWrite ==
    <<"aggregate", "format", "create_schedule", "write_schedule",
      "create_notice", "write_notice">>

BcProgram ==
    <<"aggregate", "format", "create_schedule", "create_notice",
      "write_schedule", "write_notice">>

\* generate_claim_documents, then the write loop of process_on_claims
OnProgram ==
    <<"parse", "build_mappings", "fill_schedule", "fill_claim",
      "write_schedule", "write_claim">>

Program == IF step_key = "bc_claims" THEN BcProgram ELSE OnProgram

Current == IF apc = "run" THEN Program[ip] ELSE ""

Exception(stmt) == [type |-> "Exception", msg |-> stmt]

\* the current statement returns
Returns ==
    /\ trace' = Append(trace, Current)
    /\ IF ip = Len(Program) THEN apc' = "done" /\ UNCHANGED ip
                            ELSE apc' = "run" /\ ip' = ip + 1
    /\ UNCHANGED error

\* the current statement raises: the processor is left, process_step
\* renders the error
Raises == Raise(Exception(Current)) /\ UNCHANGED <<ip, trace>>

Frame == UNCHANGED <<entry, step_key, uploads, files_by_type, templates>>

\* combined = bc_claims.aggregate_claims_data(inputs)
BcAggregate ==
    /\ step_key = "bc_claims" /\ Current = "aggregate"
    /\ (Returns \/ Raises)
    /\ UNCHANGED written /\ Frame /\ UNCHANGED notAppVars

\* formatted = bc_claims.format_data_for_template(combined)
BcFormat ==
    /\ step_key = "bc_claims" /\ Current = "format"
    /\ (Returns \/ Raises)
    /\ UNCHANGED written /\ Frame /\ UNCHANGED notAppVars

\* schedule_bytes = create_schedule_a_document(...),
\* notice_bytes = create_notice_of_claim_pdf(...)
BcCreate ==
    /\ step_key = "bc_claims" /\ Current \in {"create_schedule", "create_notice"}
    /\ (Returns \/ Raises)
    /\ UNCHANGED written /\ Frame /\ UNCHANGED notAppVars

\* schedule_path.write_bytes(schedule_bytes), notice_path.write_bytes(notice_bytes)
BcWrite ==
    /\ step_key = "bc_claims" /\ Current \in {"write_schedule", "write_notice"}
    /\ written' = written \cup {IF Current = "write_schedule" THEN "schedule" ELSE "notice"}
    /\ Returns
    /\ Frame /\ UNCHANGED notAppVars

\* parse_mrs_statement, parse_last_purchase_date, parse_last_payment_date,
\* extract_credit_report_data
OnParse ==
    /\ step_key = "on_claims" /\ Current = "parse"
    /\ (Returns \/ Raises)
    /\ UNCHANGED written /\ Frame /\ UNCHANGED notAppVars

\* build_schedule_mapping, build_claim_mapping
OnBuildMappings ==
    /\ step_key = "on_claims" /\ Current = "build_mappings"
    /\ (Returns \/ Raises)
    /\ UNCHANGED written /\ Frame /\ UNCHANGED notAppVars

\* replace_placeholders and document_to_bytes of the two templates
OnFill ==
    /\ step_key = "on_claims" /\ Current \in {"fill_schedule", "fill_claim"}
    /\ (Returns \/ Raises)
    /\ UNCHANGED written /\ Frame /\ UNCHANGED notAppVars

\* for key in ("schedule", "claim"): dest.write_bytes(binary)
OnWrite ==
    /\ step_key = "on_claims" /\ Current \in {"write_schedule", "write_claim"}
    /\ written' = written \cup {IF Current = "write_schedule" THEN "schedule" ELSE "claim"}
    /\ Returns
    /\ Frame /\ UNCHANGED notAppVars

NextApp ==
    \/ ValidateFiles
    \/ BcClassify
    \/ OnClassify
    \/ BcAggregate
    \/ BcFormat
    \/ BcCreate
    \/ BcWrite
    \/ OnParse
    \/ OnBuildMappings
    \/ OnFill
    \/ OnWrite

SpecApp == InitApp /\ [][NextApp]_vars

-----------------------------------------------------------------------------
(* Claims about the processors                                             *)

\* the processor was called and has left its classification part
ProcessorPastClassify ==
    /\ apc \in {"run", "done", "error"}
    /\ entry = "direct" \/ validate_files(STEPS[step_key], uploads) = NoError

\* the files by type the uploads give: by name, and for ON by text as well
Classified ==
    IF step_key = "bc_claims"
    THEN ClassifyByName(uploads, EmptyDict, <<>>).files_by_type
    ELSE LET byName == ClassifyByName(WithSuffix(uploads, ".pdf"), EmptyDict, <<>>)
         IN  ClassifyByText(byName.leftovers, byName.files_by_type)

\* the required keys left without a file, in the order MRP, MRC, MRS, CBR
Unassigned ==
    LET assigned == DOMAIN Classified
        Free(key) == key \notin assigned
    IN  SelectSeq(<<"MRP", "MRC", "MRS", "CBR">>, Free)

MissingError(missing) ==
    IF step_key = "bc_claims" THEN BcMissingError(missing) ELSE OnMissingError(missing)

NoExtractionRan == Range(trace) \cap {"aggregate", "parse"} = {}

BothTemplates ==
    LET t == ChooseTemplates(WithSuffix(uploads, ".docx"))
    IN  t.schedule # NoFile /\ t.claim # NoFile

\* C4 as the specification states it: whenever the files of a case leave a
\* required type without a file, the processor raises the missing-document
\* error that names exactly the missing keys, before any extraction.
C4_MissingNamesExactlyMissing_AsStated ==
    (ProcessorPastClassify /\ Unassigned # <<>>) =>
        /\ apc = "error"
        /\ error = MissingError(Unassigned)
        /\ NoExtractionRan

\* C4: when the files of a case leave a required type without a file, a
\* called processor ends in an error before any extractor runs;
\* process_bc_claims, and process_on_claims once it has both templates,
\* raise the missing-files error whose list is exactly the missing keys in
\* the order MRP, MRC, MRS, CBR; process_on_claims without both templates
\* raises the template error instead, which names no key.  The text of a PDF
\* that no file-name rule took is loaded before the check in
\* process_on_claims.  Through process_step, files that _validate_files
\* rejects never reach a processor.
C4_MissingNamesExactlyMissing ==
    /\ (ProcessorPastClassify /\ Unassigned # <<>>) =>
        /\ apc = "error"
        /\ NoExtractionRan
        /\ IF step_key = "on_claims" /\ ~BothTemplates
           THEN error = TemplatesError /\ files_by_type = EmptyDict /\ trace = <<>>
           ELSE /\ error = MissingError(Unassigned)
                /\ files_by_type = Classified
                /\ Range(trace) \subseteq {"load_pdf_text"}
                /\ step_key = "bc_claims" => trace = <<>>
    /\ (entry = "route" /\ apc # "validate"
        /\ validate_files(STEPS[step_key], uploads) # NoError) =>
        /\ apc = "error"
        /\ error = validate_files(STEPS[step_key], uploads)
        /\ files_by_type = EmptyDict /\ trace = <<>>

\* only the payment report, the charge report and the credit report are
\* supplied: the error names exactly MRS
C4_Witness ==
    /\ step_key = "bc_claims"
    /\ Len(uploads) = 3
    /\ DOMAIN files_by_type = {"MRP", "MRC", "CBR"}
    /\ apc = "error"
    /\ error = BcMissingError(<<"MRS">>)

GenerateStmts ==
    IF step_key = "bc_claims" THEN {"create_schedule", "create_notice"}
    ELSE {"fill_schedule", "fill_claim"}

Outputs == IF step_key = "bc_claims" THEN {"schedule", "notice"} ELSE {"schedule", "claim"}

-----------------------------------------------------------------------------
(* bc_claims.format_data_for_template                                      *)

IsAlpha(c) == c \in LowerSet \/ c \in UpperSet

AllDigits(s) == \A i \in 1..Len(s) : IsDigit(Char(s, i))

RECURSIVE StrToNat(_)
StrToNat(s) ==
    IF s = "" THEN 0 ELSE StrToNat(SubSeq(s, 1, Len(s) - 1)) * 10 + DigitVal(Char(s, Len(s)))

\* bool(value)
Truthy(value) ==
    IF value.kind = "none" THEN FALSE
    ELSE IF value.kind = "str" THEN value.s # ""
    ELSE IF value.kind = "num" THEN value.n # 0
    ELSE IF value.kind = "list" THEN value.items # <<>>
    ELSE DOMAIN value.d # {}

\* a or b
Or(a, b) == IF Truthy(a) THEN a ELSE b

\* str(value) of a string or of None
PyStr(value) == IF value.kind = "str" THEN value.s ELSE "None"

\* s.split(sep)[0]
RECURSIVE SplitFirst(_, _)
SplitFirst(s, sep) ==
    IF s = "" \/ Head(s) = sep THEN "" ELSE Head(s) \o SplitFirst(Tail(s), sep)

\* 10 ** n
RECURSIVE Pow10(_)
Pow10(n) == IF n = 0 THEN 1 ELSE 10 * Pow10(n - 1)

NoDec == [ok |-> FALSE, neg |-> FALSE, units |-> 0, scale |-> 0]

\* Decimal(text) of a number in plain notation: optional sign, digits with
\* at most one point; the value is (-1)^neg * units / 10^scale.  ok is
\* FALSE where Decimal raises InvalidOperation.
ParseDecimal(text) ==
    LET Of(neg, whole, frac) ==
            IF ~AllDigits(whole) \/ ~AllDigits(frac) \/ whole \o frac = "" THEN NoDec
            ELSE [ok |-> TRUE, neg |-> neg,
                  units |-> StrToNat(whole \o frac), scale |-> Len(frac)]
        Split(neg, body, dot) ==
            IF dot = 0 THEN Of(neg, body, "")
            ELSE Of(neg, SubSeq(body, 1, dot - 1), SubSeq(body, dot + 1, Len(body)))
        Unsigned(neg, body) == Split(neg, body, LastDot(body, Len(body)))
        Signed(trimmed) ==
            IF trimmed # "" /\ Head(trimmed) \in {"-", "+"}
            THEN Unsigned(Head(trimmed) = "-", Tail(trimmed))
            ELSE Unsigned(FALSE, trimmed)
    IN  Signed(Strip(text, Whitespace))

\* the cents of the magnitude of a decimal, rounded half to even: the
\* rounding of format(dec, ".2f")
HalfEvenCents(dec) ==
    IF dec.scale <= 2 THEN dec.units * Pow10(2 - dec.scale)
    ELSE LET unit == Pow10(dec.scale - 2)
             q == dec.units \div unit
             r == dec.units % unit
         IN  IF 2 * r > unit \/ (2 * r = unit /\ q % 2 = 1) THEN q + 1 ELSE q

\* the cents of the magnitude of a decimal, rounded half up: the rounding
\* of quantize(Decimal("0.01"), rounding=ROUND_HALF_UP)
HalfUpCents(dec) ==
    IF dec.scale <= 2 THEN dec.units * Pow10(2 - dec.scale)
    ELSE LET unit == Pow10(dec.scale - 2)
             q == dec.units \div unit
             r == dec.units % unit
         IN  IF 2 * r >= unit THEN q + 1 ELSE q

\* f"${dec:,.2f}" of a decimal of that sign and that many cents
FormatMoney(neg, cents) == "$" \o (IF neg THEN "-" ELSE "") \o FormatCents(cents)

\* Decimal(cleaned) of an unsigned number, in the cents format(dec, ".2f")
\* renders (the value itself when it has at most two decimals); -1 stands
\* for InvalidOperation
DecimalCents(cleaned) ==
    LET Cents(dec) == IF dec.ok THEN HalfEvenCents(dec) ELSE -1
    IN  IF \E i \in 1..Len(cleaned) : ~IsDigit(Char(cleaned, i)) /\ Char(cleaned, i) # "."
        THEN -1
        ELSE Cents(ParseDecimal(cleaned))

\* a to_money_str that turns None into a zero amount
to_money_str_zero_for_none(value) ==
    IF value.kind = "none" THEN "$0.00"
    ELSE IF value.kind = "str" THEN Strip(value.s, Whitespace)
    ELSE "$" \o FormatCents(value.n)

to_money_str(value) ==
    IF value.kind = "none" THEN ""
    ELSE IF value.kind = "str"
    THEN LET Money(dec, stripped) ==
                 IF dec.ok THEN FormatMoney(dec.neg, HalfEvenCents(dec)) ELSE stripped
             Of(stripped) ==
                 IF stripped = "" THEN ""
                 ELSE Money(ParseDecimal(Replace(Replace(stripped, "$", ""), ",", "")),
                            stripped)
         IN  Of(Strip(value.s, Whitespace))
    ELSE "$" \o FormatCents(value.n)

MONTH_ABBR ==
    <<"Jan", "Feb", "Mar", "Apr", "May", "Jun", "Jul", "Aug", "Sep", "Oct", "Nov", "Dec">>

MONTH_NAME ==
    <<"January", "February", "March", "April", "May", "June", "July", "August",
      "September", "October", "November", "December">>

\* %b: the month number of an abbreviation, any case; 0 when it is none
MonthOf(abbr) ==
    IF \E m \in 1..12 : Lower(MONTH_ABBR[m]) = Lower(abbr)
    THEN CHOOSE m \in 1..12 : Lower(MONTH_ABBR[m]) = Lower(abbr)
    ELSE 0

IsLeap(year) == year % 4 = 0 /\ (year % 100 # 0 \/ year % 400 = 0)

DaysIn(month, year) ==
    IF month = 2 THEN (IF IsLeap(year) THEN 29 ELSE 28)
    ELSE IF month \in {4, 6, 9, 11} THEN 30 ELSE 31

NoDate == [year |-> 0, month |-> 0, day |-> 0]

\* the date of the matched directives: %d is one or two digits and not zero,
\* %Y four digits; NoDate stands for ValueError
MakeDate(abbr, day, year) ==
    IF /\ MonthOf(abbr) # 0
       /\ Len(day) \in {1, 2} /\ AllDigits(day)
       /\ Len(year) = 4 /\ AllDigits(year)
       /\ StrToNat(year) >= 1
       /\ StrToNat(day) >= 1
       /\ StrToNat(day) <= DaysIn(MonthOf(abbr), StrToNat(year))
    THEN [year |-> StrToNat(year), month |-> MonthOf(abbr), day |-> StrToNat(day)]
    ELSE NoDate

\* the position of the first c in s, 0 when there is none
RECURSIVE Find(_, _, _)
Find(s, c, i) == IF i > Len(s) THEN 0 ELSE IF Char(s, i) = c THEN i ELSE Find(s, c, i + 1)

\* datetime.strptime(s, "%b%d,%Y")
StrptimeCompact(s) ==
    LET comma == Find(s, ",", 1) IN
    IF Len(s) < 3 \/ comma < 4 THEN NoDate
    ELSE MakeDate(SubSeq(s, 1, 3), SubSeq(s, 4, comma - 1), SubSeq(s, comma + 1, Len(s)))

\* datetime.strptime(s, "%b %d, %Y"): a blank of the format is one or more
\* blanks of the string
StrptimeSpaced(s) ==
    LET comma == Find(s, ",", 1)
        day == IF comma < 4 THEN "" ELSE SubSeq(s, 4, comma - 1)
        year == IF comma = 0 THEN "" ELSE SubSeq(s, comma + 1, Len(s))
    IN  IF Len(s) < 3 \/ comma < 4 \/ LStrip(day, Whitespace) = day
           \/ LStrip(year, Whitespace) = year
        THEN NoDate
        ELSE MakeDate(SubSeq(s, 1, 3), LStrip(day, Whitespace), LStrip(year, Whitespace))

\* datetime.strptime(s, "%b %d %Y")
StrptimeBlank(s) ==
    LET rest == IF Len(s) < 3 THEN "" ELSE LStrip(SubSeq(s, 4, Len(s)), Whitespace)
        blank == Find(rest, " ", 1)
        day == IF blank = 0 THEN "" ELSE SubSeq(rest, 1, blank - 1)
        year == IF blank = 0 THEN "" ELSE LStrip(SubSeq(rest, blank, Len(rest)), Whitespace)
    IN  IF Len(s) < 4 \/ rest = SubSeq(s, 4, Len(s)) \/ blank = 0 THEN NoDate
        ELSE MakeDate(SubSeq(s, 1, 3), day, year)

Pad(n, width) ==
    LET digits == NatToStr(n) IN
    IF Len(digits) >= width THEN digits
    ELSE SubSeq("0000", 1, width - Len(digits)) \o digits

\* dt.strftime("%B %d, %Y")
StrftimeFull(dt) == MONTH_NAME[dt.month] \o " " \o Pad(dt.day, 2) \o ", " \o Pad(dt.year, 4)

\* dt.strftime("%b %d, %Y")
StrftimeAbbr(dt) == MONTH_ABBR[dt.month] \o " " \o Pad(dt.day, 2) \o ", " \o Pad(dt.year, 4)

\* re.sub(r"([A-Za-z]{3})(\d{2})", r"\1 \2", s): matches are taken from the
\* left and do not overlap
RECURSIVE SpaceMonthDay2(_)
SpaceMonthDay2(s) ==
    IF Len(s) < 5 THEN s
    ELSE IF /\ \A i \in 1..3 : IsAlpha(Char(s, i))
            /\ \A i \in 4..5 : IsDigit(Char(s, i))
         THEN SubSeq(s, 1, 3) \o " " \o SubSeq(s, 4, 5) \o SpaceMonthDay2(SubSeq(s, 6, Len(s)))
         ELSE Head(s) \o SpaceMonthDay2(Tail(s))

format_date(date_str) ==
    IF ~Truthy(date_str) THEN "UNKNOWN" ELSE SpaceMonthDay2(PyStr(date_str))

format_with_full_month(date_str, year) ==
    LET dt == StrptimeBlank(date_str \o " " \o NatToStr(year)) IN
    IF dt = NoDate THEN date_str ELSE StrftimeFull(dt)

\* the year of the closing date, 0 for None
get_year_from_closing(closing_date) ==
    IF ~Truthy(closing_date) THEN 0
    ELSE IF StrptimeCompact(Replace(closing_date.s, " ", "")) # NoDate
         THEN StrptimeCompact(Replace(closing_date.s, " ", "")).year
         ELSE StrptimeSpaced(closing_date.s).year

\* " aka ".join(f"{aka['given_name']} {aka['surname']}" for aka in akas)
RECURSIVE AkaPart(_)
AkaPart(akas) ==
    IF akas = <<>> THEN ""
    ELSE akas[1].given_name \o " " \o akas[1].surname
         \o (IF Len(akas) = 1 THEN "" ELSE " aka " \o AkaPart(Tail(akas)))

\* the last payment or last charge date: raw is None ("") unless the value
\* is a string
LastDate(value, label, year) ==
    LET raw == IF value.kind = "str"
               THEN Strip(SplitFirst(Replace(value.s, label, ""), ","), Whitespace)
               ELSE ""
        last == IF raw # "" /\ year # 0 THEN format_with_full_month(raw, year)
                ELSE IF raw # "" THEN raw ELSE "UNKNOWN"
    IN  IF last # "" THEN last ELSE "UNKNOWN"

TOKENS ==
    <<"SIMPLE NAME INSERT", "ADRESS INSERT",
      "CREDIT CARD / CHARGE CARD / PERSONAL LOAN INSERT", "CARD TYPE INSERT",
      "DATE OF LAST CHARGE INSERT", "DATE OF LAST PAYMENT INSERT",
      "INTEREST RATE INSERT", "DATE RANGE INSERT", "SMALLDINSERT",
      "ACCRUED INTEREST INSERT", "FINSERT", "PAYMENTS INSERT", "DEBT INSERT",
      "DEMAND LETTER DATE INSERT", "TELINSERT", "CARD INSERT", "AMOUNT INSERT">>

\* format_data_for_template(data) when datetime.now() is now
format_data_for_template(record, today) ==
    LET name == Get(record, "name", Str("UNKNOWN NAME"))
        akas == Or(Get(record, "akas", None), List(<<>>))
        formatted_name == IF Truthy(akas)
                          THEN Str(PyStr(name) \o " aka " \o AkaPart(akas.items))
                          ELSE name
        closing_date == Get(record, "closing_date", None)
        year == get_year_from_closing(closing_date)
        last_payment == LastDate(Get(record, "last_payment_date", None),
                                 "Payment Transaction Date:", year)
        last_charge == LastDate(Get(record, "last_charge_date", None),
                                "Transaction Date:", year)
        opening == format_date(Get(record, "opening_date", None))
        closing == format_date(closing_date)
    IN  [token \in Range(TOKENS) |->
          CASE token = "SIMPLE NAME INSERT" -> formatted_name
            [] token = "ADRESS INSERT" -> Get(record, "address", Str("UNKNOWN ADDRESS"))
            [] token = "CREDIT CARD / CHARGE CARD / PERSONAL LOAN INSERT" ->
                   Get(record, "account_type", Str("UNKNOWN ACCOUNT TYPE"))
            [] token = "CARD TYPE INSERT" -> Get(record, "card_name", Str("UNKNOWN CARD"))
            [] token = "DATE OF LAST CHARGE INSERT" -> Str(last_charge)
            [] token = "DATE OF LAST PAYMENT INSERT" -> Str(last_payment)
            [] token = "INTEREST RATE INSERT" ->
                   Get(record, "annual_interest_rate", Str("UNKNOWN"))
            [] token = "DATE RANGE INSERT" ->
                   IF opening # "UNKNOWN" /\ closing # "UNKNOWN"
                   THEN Str(opening \o " - " \o closing) ELSE Str("UNKNOWN RANGE")
            [] token = "SMALLDINSERT" ->
                   Str(to_money_str(Get(record, "previous_balance", None)))
            [] token = "ACCRUED INTEREST INSERT" ->
                   Str(to_money_str(Get(record, "interest", None)))
            [] token = "FINSERT" -> Str(to_money_str(Or(Get(record, "fees", None), Num(0))))
            [] token = "PAYMENTS INSERT" ->
                   Str(to_money_str(Or(Get(record, "payments", None), Num(0))))
            [] token = "DEBT INSERT" ->
                   Str(to_money_str(Or(Get(record, "total_indebtedness", None),
                                       Get(record, "outstanding_balance", None))))
            [] token = "DEMAND LETTER DATE INSERT" -> Str(StrftimeAbbr(today))
            [] token = "TELINSERT" -> Get(record, "phone", Str(""))
            [] token = "CARD INSERT" -> Get(record, "subject_line", Str(""))
            [] token = "AMOUNT INSERT" ->
                   Str(to_money_str(Get(record, "outstanding_balance", None)))]

-----------------------------------------------------------------------------
(* SpecFormat: format_data_for_template applied to an aggregated record.   *)

NameParts ==
    {EmptyDict,
     [name |-> Str("ANN LEE")],
     [name |-> Str("ANN LEE"), akas |-> List(<<NameEntry("LEIGH", "ANNIE")>>)]}

DateParts ==
    {EmptyDict,
     [opening_date |-> Str("Dec 07, 2023")],
     [opening_date |-> Str("Dec 07, 2023"), closing_date |-> Str("Jan 06, 2024")],
     [opening_date |-> Str("Dec07,2023"), closing_date |-> Str("Jan06,2024")]}

LastParts ==
    {EmptyDict,
     [last_payment_date |-> Str("Payment Transaction Date: Jan 05, Posting Date: Jan 6")],
     [last_payment_date |-> Str("Payment Transaction Date: Jan 05, Posting Date: Jan 6"),
      last_charge_date |-> Str("Transaction Date: Dec 12, Posting Date: Dec 13")]}

MoneyParts ==
    {EmptyDict,
     [previous_balance |-> Num(100000)],
     [previous_balance |-> Num(100000), interest |-> Num(2550), fees |-> Num(0),
      payments |-> Num(20000), total_indebtedness |-> Num(125050),
      outstanding_balance |-> Str("1,250.50")]}

ContactParts ==
    {EmptyDict,
     [address |-> Str("12 ELM ST, VANCOUVER BC V5K 0A1"), account_type |-> Str("Credit Card"),
      card_name |-> Str("Cobalt Card"), annual_interest_rate |-> Str("21.99"),
      phone |-> Str("6045551234"), subject_line |-> Str("XX1 12345")]}

FormatRecords ==
    {Update(Update(Update(Update(n, d), l), m), c) :
        n \in NameParts, d \in DateParts, l \in LastParts, m \in MoneyParts,
        c \in ContactParts}

Todays == {[year |-> 2026, month |-> 11, day |-> 6], [year |-> 2024, month |-> 2, day |-> 29]}

InitFormat ==
    /\ IdleRuns
    /\ IdleGenerate
    /\ IdleHelpers
    /\ IdlePdf
    /\ IdleMerge
    /\ IdleAgg
    /\ IdleApp
    /\ IdleDocx
    /\ data \in FormatRecords
    /\ now \in Todays
    /\ formatted = EmptyDict
    /\ fpc = "call"

FormatCall ==
    /\ fpc = "call"
    /\ formatted' = format_data_for_template(data, now)
    /\ fpc' = "returned"
    /\ UNCHANGED <<data, now>>
    /\ UNCHANGED notFmtVars

NextFormat == FormatCall

SpecFormat == InitFormat /\ [][NextFormat]_vars

-----------------------------------------------------------------------------
(* Claims about format_data_for_template                                   *)

\* the keys of the aggregated record under each token; the demand letter
\* date has none, it is the current date
Underlying ==
    [token \in Range(TOKENS) |->
      CASE token = "SIMPLE NAME INSERT" -> {"name"}
        [] token = "ADRESS INSERT" -> {"address"}
        [] token = "CREDIT CARD / CHARGE CARD / PERSONAL LOAN INSERT" -> {"account_type"}
        [] token = "CARD TYPE INSERT" -> {"card_name"}
        [] token = "DATE OF LAST CHARGE INSERT" -> {"last_charge_date"}
        [] token = "DATE OF LAST PAYMENT INSERT" -> {"last_payment_date"}
        [] token = "INTEREST RATE INSERT" -> {"annual_interest_rate"}
        [] token = "DATE RANGE INSERT" -> {"opening_date", "closing_date"}
        [] token = "SMALLDINSERT" -> {"previous_balance"}
        [] token = "ACCRUED INTEREST INSERT" -> {"interest"}
        [] token = "FINSERT" -> {"fees"}
        [] token = "PAYMENTS INSERT" -> {"payments"}
        [] token = "DEBT INSERT" -> {"total_indebtedness", "outstanding_balance"}
        [] token = "DEMAND LETTER DATE INSERT" -> {}
        [] token = "TELINSERT" -> {"phone"}
        [] token = "CARD INSERT" -> {"subject_line"}
        [] token = "AMOUNT INSERT" -> {"outstanding_balance"}]

IsUnknownFallback(value) == value.kind = "str" /\ StartsWith(value.s, "UNKNOWN")

FixedTokens == DOMAIN formatted = Range(TOKENS) /\ Cardinality(DOMAIN formatted) = 17

\* the fallback of each token whose underlying value is absent
Fallback ==
    [token \in Range(TOKENS) \ {"DEMAND LETTER DATE INSERT"} |->
      CASE token = "SIMPLE NAME INSERT" -> "UNKNOWN NAME"
        [] token = "ADRESS INSERT" -> "UNKNOWN ADDRESS"
        [] token = "CREDIT CARD / CHARGE CARD / PERSONAL LOAN INSERT" -> "UNKNOWN ACCOUNT TYPE"
        [] token = "CARD TYPE INSERT" -> "UNKNOWN CARD"
        [] token \in {"DATE OF LAST CHARGE INSERT", "DATE OF LAST PAYMENT INSERT",
                      "INTEREST RATE INSERT"} -> "UNKNOWN"
        [] token = "DATE RANGE INSERT" -> "UNKNOWN RANGE"
        [] token \in {"FINSERT", "PAYMENTS INSERT"} -> "$0.00"
        [] OTHER -> ""]

-----------------------------------------------------------------------------
(* The DOCX fillers.  A paragraph is the sequence of the texts of its runs; *)
(* an element with paragraphs and tables (the document body, a table cell, *)
(* a header, a footer) is [paragraphs, tables], a table the sequence of    *)
(* its cells; a document has in addition its sections, each with a header  *)
(* and a footer.  A placeholder mapping is the sequence of its             *)
(* <<placeholder, value>> items, in insertion order.                       *)

\* "".join(run.text for run in paragraph.runs)
RECURSIVE JoinRuns(_)
JoinRuns(runs) == IF runs = <<>> THEN "" ELSE Head(runs) \o JoinRuns(Tail(runs))

\* the runs after every run but the first was emptied and the first set
FirstRunHolds(runs, text) == [i \in 1..Len(runs) |-> IF i = 1 THEN text ELSE ""]

\* a replace_placeholder_in_paragraph without the early return
replace_placeholder_always(runs, placeholder, replacement) ==
    IF runs # <<>>
    THEN FirstRunHolds(runs, Replace(JoinRuns(runs), placeholder, replacement))
    ELSE <<Replace(JoinRuns(runs), placeholder, replacement)>>

\* bc_claims.replace_placeholder_in_paragraph
replace_placeholder_in_paragraph(runs, placeholder, replacement) ==
    LET full_text == JoinRuns(runs)
        new_text == Replace(full_text, placeholder, replacement)
    IN  IF ~Contains(full_text, placeholder) THEN runs
        ELSE IF runs # <<>> THEN FirstRunHolds(runs, new_text)
        ELSE <<new_text>>

\* the paragraphs of an element, each replaced in
BcParagraphs(element, placeholder, replacement) ==
    [i \in DOMAIN element.paragraphs |->
        replace_placeholder_in_paragraph(element.paragraphs[i], placeholder, replacement)]

\* bc_claims.replace_text_everywhere
replace_text_everywhere(doc, placeholder, replacement) ==
    [doc EXCEPT
        !.paragraphs = BcParagraphs(doc, placeholder, replacement),
        !.tables = [t \in DOMAIN doc.tables |->
                      [c \in DOMAIN doc.tables[t] |->
                          [doc.tables[t][c] EXCEPT
                              !.paragraphs = BcParagraphs(doc.tables[t][c],
                                                          placeholder, replacement)]]]]

\* bc_claims.create_schedule_a_document: the document that is saved
RECURSIVE create_schedule_a_document(_, _)
create_schedule_a_document(doc, items) ==
    IF items = <<>> THEN doc
    ELSE create_schedule_a_document(
             replace_text_everywhere(doc, items[1][1], items[1][2]), Tail(items))

\* sorted(mapping, key=len, reverse=True): the items by key length, longest
\* first, items of equal length in insertion order
RECURSIVE SortedByLen(_)
SortedByLen(items) ==
    IF items = <<>> THEN <<>>
    ELSE LET longest == CHOOSE i \in DOMAIN items :
                 /\ \A j \in DOMAIN items : Len(items[j][1]) <= Len(items[i][1])
                 /\ \A j \in 1..(i - 1) : Len(items[j][1]) < Len(items[i][1])
             rest == [j \in 1..(Len(items) - 1) |->
                         IF j < longest THEN items[j] ELSE items[j + 1]]
         IN  <<items[longest]>> \o SortedByLen(rest)

RECURSIVE ReplaceAll(_, _)
ReplaceAll(text, items) ==
    IF items = <<>> THEN text
    ELSE ReplaceAll(Replace(text, items[1][1], items[1][2]), Tail(items))

\* ontario_claims.apply_mapping
apply_mapping(text, mapping) == ReplaceAll(text, SortedByLen(mapping))

\* ontario_claims.replace_placeholders.replace_in_paragraph
replace_in_paragraph(runs, mapping) ==
    LET original == JoinRuns(runs)
        updated == apply_mapping(original, mapping)
    IN  IF runs = <<>> THEN runs
        ELSE IF updated # original THEN FirstRunHolds(runs, updated)
        ELSE runs

\* replace_in_paragraph on every paragraph ontario_claims.iter_paragraphs
\* yields for the element
RECURSIVE ReplaceInElement(_, _)
ReplaceInElement(element, mapping) ==
    [element EXCEPT
        !.paragraphs = [i \in DOMAIN element.paragraphs |->
                           replace_in_paragraph(element.paragraphs[i], mapping)],
        !.tables = [t \in DOMAIN element.tables |->
                      [c \in DOMAIN element.tables[t] |->
                          ReplaceInElement(element.tables[t][c], mapping)]]]

\* ontario_claims.replace_placeholders
replace_placeholders(doc, mapping) ==
    [ReplaceInElement(doc, mapping) EXCEPT
        !.sections = [s \in DOMAIN doc.sections |->
                        [header |-> ReplaceInElement(doc.sections[s].header, mapping),
                         footer |-> ReplaceInElement(doc.sections[s].footer, mapping)]]]

\* demand_letter.replace_text on one paragraph: assigning paragraph.text
\* leaves a single run
RECURSIVE ReplaceTextInParagraph(_, _)
ReplaceTextInParagraph(runs, items) ==
    IF items = <<>> THEN runs
    ELSE IF Contains(JoinRuns(runs), items[1][1])
         THEN ReplaceTextInParagraph(
                  <<Replace(JoinRuns(runs), items[1][1], items[1][2])>>, Tail(items))
         ELSE ReplaceTextInParagraph(runs, Tail(items))

\* demand_letter.replace_text
replace_text(paragraphs, replacements) ==
    [i \in DOMAIN paragraphs |-> ReplaceTextInParagraph(paragraphs[i], replacements)]

\* demand_letter.create_demand_letter_doc on a template that exists: the
\* document that is saved
create_demand_letter_doc(doc, replacements) ==
    [doc EXCEPT
        !.paragraphs = replace_text(doc.paragraphs, replacements),
        !.tables = [t \in DOMAIN doc.tables |->
                      [c \in DOMAIN doc.tables[t] |->
                          [doc.tables[t][c] EXCEPT
                              !.paragraphs = replace_text(doc.tables[t][c].paragraphs,
                                                          replacements)]]]]

-----------------------------------------------------------------------------
(* SpecDocx: one template filled by one of the three DOCX fillers.         *)

Element(paragraphs, tables) == [paragraphs |-> paragraphs, tables |-> tables]

\* a template with one paragraph in the body, one in a cell of a table, one
\* in a cell of a table nested in that cell, one in the header and one in
\* the footer of the only section
Template(body, cell, nested, header, footer) ==
    [paragraphs |-> <<body>>,
     tables |-> << << Element(<<cell>>, << << Element(<<nested>>, <<>>) >> >>) >> >>,
     sections |-> <<[header |-> Element(<<header>>, <<>>),
                     footer |-> Element(<<footer>>, <<>>)]>>]

PLACES == {"body", "cell", "nested", "header", "footer"}

\* the runs of the paragraph at each place of a document of that shape
ParagraphAt(d, place) ==
    CASE place = "body" -> d.paragraphs[1]
      [] place = "cell" -> d.tables[1][1].paragraphs[1]
      [] place = "nested" -> d.tables[1][1].tables[1][1].paragraphs[1]
      [] place = "header" -> d.sections[1].header.paragraphs[1]
      [] place = "footer" -> d.sections[1].footer.paragraphs[1]

ParagraphChoices ==
    {<<"Dear ", "Sir">>,
     <<"Re: SIMPLE NAME INSERT">>,
     <<"Tel: TEL", "INSERT", " (home)">>,
     <<"Ottawa Small", " Claims Court">>}

\* the last mapping is the one build_schedule_mapping gives for a defendant
\* of Ottawa: the value of "Ottawa Small Claims Court" is the token itself
MappingChoices ==
    {<< <<"SIMPLE NAME INSERT", "ANN LEE">>, <<"TELINSERT", "6045551234">> >>,
     << <<"TELINSERT", "">>, <<"CARD INSERT", "XX1 12345">> >>,
     << <<"SIMPLE NAME INSERT", "ANN LEE">>,
        <<"Ottawa Small Claims Court", "Ottawa Small Claims Court">> >>}

FILLERS == {"bc_claims", "ontario_claims", "demand_letter"}

Templates ==
    {Template(b, c, n, h, f) :
        b \in ParagraphChoices, c \in ParagraphChoices, n \in ParagraphChoices,
        h \in ParagraphChoices, f \in ParagraphChoices}

InitDocx ==
    /\ IdleRuns
    /\ IdleGenerate
    /\ IdleHelpers
    /\ IdlePdf
    /\ IdleMerge
    /\ IdleAgg
    /\ IdleApp
    /\ IdleFormat
    /\ filler \in FILLERS
    /\ template \in Templates
    /\ docx = template
    /\ placeholders \in MappingChoices
    /\ dpc = "call"

\* bc_claims.create_schedule_a_document
FillSchedule ==
    /\ dpc = "call" /\ filler = "bc_claims"
    /\ docx' = create_schedule_a_document(docx, placeholders)
    /\ dpc' = "returned"
    /\ UNCHANGED <<filler, template, placeholders>>
    /\ UNCHANGED notDocxVars

\* ontario_claims.replace_placeholders
FillOntario ==
    /\ dpc = "call" /\ filler = "ontario_claims"
    /\ docx' = replace_placeholders(docx, placeholders)
    /\ dpc' = "returned"
    /\ UNCHANGED <<filler, template, placeholders>>
    /\ UNCHANGED notDocxVars

\* demand_letter.create_demand_letter_doc
FillDemandLetter ==
    /\ dpc = "call" /\ filler = "demand_letter"
    /\ docx' = create_demand_letter_doc(docx, placeholders)
    /\ dpc' = "returned"
    /\ UNCHANGED <<filler, template, placeholders>>
    /\ UNCHANGED notDocxVars

NextDocx == FillSchedule \/ FillOntario \/ FillDemandLetter

SpecDocx == InitDocx /\ [][NextDocx]_vars

-----------------------------------------------------------------------------
(* Claims about the DOCX fillers                                           *)

Keys(m) == {m[i][1] : i \in DOMAIN m}

\* the placeholders of the mapping that occur in the paragraph
TokensIn(runs) == {key \in Keys(placeholders) : Contains(JoinRuns(runs), key)}

\* C7 as the specification states it: after filling, no paragraph of the
\* document, in the body, in a table cell at any depth, in a header or in a
\* footer, still holds a placeholder of the mapping that the template held
\* there.
C7_ReplacedEverywhere_AsStated ==
    dpc = "returned" =>
        \A place \in PLACES :
            \A key \in TokensIn(ParagraphAt(template, place)) :
                ~Contains(JoinRuns(ParagraphAt(docx, place)), key)

\* C8: after filling, a paragraph that held none of the placeholders of the
\* mapping has the runs it had in the template, whichever filler ran and
\* whether or not the placeholders occur anywhere in the template.
C8_UntouchedParagraphsKeepRuns ==
    dpc = "returned" =>
        \A place \in PLACES :
            TokensIn(ParagraphAt(template, place)) = {} =>
                ParagraphAt(docx, place) = ParagraphAt(template, place)

\* a mapping with a placeholder that occurs nowhere in the template, and a
\* paragraph of several runs without any placeholder beside one that was
\* filled
C8_Witness ==
    /\ dpc = "returned"
    /\ \A place \in PLACES : ~Contains(JoinRuns(ParagraphAt(template, place)), "CARD INSERT")
    /\ "CARD INSERT" \in Keys(placeholders)
    /\ ParagraphAt(template, "body") = <<"Dear ", "Sir">>
    /\ ParagraphAt(docx, "body") = <<"Dear ", "Sir">>
    /\ ParagraphAt(template, "cell") = <<"Tel: TEL", "INSERT", " (home)">>
    /\ ParagraphAt(docx, "cell") = <<"Tel:  (home)", "", "">>

-----------------------------------------------------------------------------
(* The PDF form fillers.  A form is the sequence of its pages; a page has  *)
(* annotations ("/Annots" in page) or not, and carries form fields, each   *)
(* with its qualified name (key), partial name /T, tooltip /TU and value   *)
(* /V.  A writer is the pages of the cloned template and the calls of      *)
(* update_page_form_field_values made on it, in order.                     *)

Field(key, tu, v) == [key |-> key, T |-> key, TU |-> tu, V |-> v]

\* the fields of a form as reader.get_fields() lists them
RECURSIVE get_fields(_)
get_fields(pages) ==
    IF pages = <<>> THEN <<>> ELSE Head(pages).fields \o get_fields(Tail(pages))

\* PdfWriter.update_page_form_field_values(page, values) on page p: every
\* field of the page named in values takes the value
update_page_form_field_values(w, p, values) ==
    [pages |-> [w.pages EXCEPT ![p].fields =
                    [i \in DOMAIN w.pages[p].fields |->
                        IF w.pages[p].fields[i].T \in DOMAIN values
                        THEN [w.pages[p].fields[i] EXCEPT
                                 !.V = values[w.pages[p].fields[i].T]]
                        ELSE w.pages[p].fields[i]]],
     updates |-> Append(w.updates, [page |-> p, values |-> values])]

\* the loop of write_field_all_pages from page p on
RECURSIVE WriteFromPage(_, _, _, _)
WriteFromPage(w, p, field_key, value) ==
    IF p > Len(w.pages) THEN w
    ELSE WriteFromPage(
             IF w.pages[p].annots
             THEN update_page_form_field_values(w, p, [k \in {field_key} |-> value])
             ELSE w,
             p + 1, field_key, value)

\* default_judgment.write_field_all_pages; value is None or Str(s)
write_field_all_pages(w, field_key, value) ==
    IF field_key = "" \/ value.kind = "none" THEN w
    ELSE WriteFromPage(w, 1, field_key, value.s)

\* re.sub(r"[^\d.]", "", value)
RECURSIVE DigitsOnly(_)
DigitsOnly(value) ==
    IF value = "" THEN ""
    ELSE (IF IsDigit(Head(value)) \/ Head(value) = "." THEN Head(value) ELSE "")
         \o DigitsOnly(Tail(value))

\* a put_amount that writes the digits-only form first and the value last
put_amount_value_last(w, field_key, value) ==
    IF field_key = "" \/ value = "" THEN w
    ELSE LET Then(w1) == write_field_all_pages(w1, field_key, Str(value))
             Of(digits_only) ==
                 IF digits_only # "" /\ digits_only # value
                 THEN Then(write_field_all_pages(w, field_key, Str(digits_only)))
                 ELSE Then(w)
         IN  Of(DigitsOnly(value))

\* default_judgment.put_amount
put_amount(w, field_key, value) ==
    IF field_key = "" \/ value = "" THEN w
    ELSE LET w1 == write_field_all_pages(w, field_key, Str(value))
             digits_only == DigitsOnly(value)
         IN  IF digits_only # "" /\ digits_only # value
             THEN write_field_all_pages(w1, field_key, Str(digits_only))
             ELSE w1

DEFAULT_EXPENSES == 23600
DEFAULT_APPLICATION_FEE == 2500

FIELD_KEYS ==
    [defendant_1 |-> "defendant", defendant_2 |-> "def", left_text |-> "terms",
     amount_a |-> "claim", amount_b |-> "expenses", amount_c |-> "interest",
     amount_e |-> "fee", registry_loc |-> "location"]

\* re.sub(r"[^\d.\-]", "", raw)
RECURSIVE DecimalChars(_)
DecimalChars(raw) ==
    IF raw = "" THEN ""
    ELSE (IF IsDigit(Head(raw)) \/ Head(raw) \in {".", "-"} THEN Head(raw) ELSE "")
         \o DecimalChars(Tail(raw))

NoDecimal == [ok |-> FALSE, cents |-> 0]

\* default_judgment.to_decimal of a string: an amount of at most two
\* decimals in cents, NoDecimal for None
to_decimal(raw_value) ==
    LET Signed(negative, cents) ==
            IF cents < 0 THEN NoDecimal
            ELSE [ok |-> TRUE, cents |-> IF negative THEN 0 - cents ELSE cents]
        Of(stripped) ==
            IF stripped # "" /\ Head(stripped) = "-"
            THEN Signed(TRUE, DecimalCents(Tail(stripped)))
            ELSE Signed(FALSE, DecimalCents(stripped))
    IN  IF raw_value = "" THEN NoDecimal ELSE Of(DecimalChars(raw_value))

\* default_judgment.format_currency
format_currency(amount) == "$" \o FormatCents(amount)

\* default_judgment.compute_principal_amount
compute_principal_amount(parsed_values, interest_amount) ==
    LET principal == to_decimal(parsed_values.principal_last_stmt)
        total_claimed == to_decimal(parsed_values.total_claimed)
        interest == IF to_decimal(interest_amount).ok
                    THEN to_decimal(interest_amount).cents ELSE 0
        rest == total_claimed.cents - DEFAULT_EXPENSES - DEFAULT_APPLICATION_FEE - interest
    IN  IF principal.ok THEN format_currency(principal.cents)
        ELSE IF ~total_claimed.ok THEN ""
        ELSE IF rest <= 0 THEN ""
        ELSE format_currency(rest)

\* default_judgment.build_left_text_three_blocks
build_left_text_three_blocks(rate, date_range) ==
    LET rate_text == Strip(IF rate # "" THEN rate ELSE "XX.XX", Whitespace)
        date_text == Strip(IF date_range # "" THEN date_range
                           ELSE "Month Day, Year to Month Day, Year", Whitespace)
    IN  "$156 FILING FEE AND $80 PERSONAL SERVICE" \o "\r\n\r\n"
        \o "Contractual interest at the rate of " \o rate_text \o "% per annum from "
        \o date_text \o "\r\n\r\n" \o "$25 APPLICATION FEE"

\* the haystack of a field: /T, /TU and the key, lower-cased
Haystack(field) == Lower(field.T \o " " \o field.TU \o " " \o field.key)

\* read_notice_interest_and_registry.get_like(*keys) on the fields of the
\* notice
get_like(fields, keys) ==
    LET Exact(i) == \E j \in DOMAIN fields : fields[j].key = keys[i] /\ fields[j].V # ""
        Alike(j) == /\ fields[j].V # ""
                    /\ \E i \in DOMAIN keys : Contains(Haystack(fields[j]), Lower(keys[i]))
    IN  IF \E i \in DOMAIN keys : Exact(i)
        THEN LET i == CHOOSE i \in DOMAIN keys :
                          Exact(i) /\ \A h \in 1..(i - 1) : ~Exact(h)
                 j == CHOOSE j \in DOMAIN fields : fields[j].key = keys[i]
             IN  Strip(fields[j].V, Whitespace)
        ELSE IF \E j \in DOMAIN fields : Alike(j)
        THEN LET j == CHOOSE j \in DOMAIN fields :
                          Alike(j) /\ \A h \in 1..(j - 1) : ~Alike(h)
             IN  Strip(fields[j].V, Whitespace)
        ELSE ""

REGISTRY_KEYS == <<"location", "registry location", "court location">>
INTEREST_KEYS == <<"amountb", "interest amount", "amount c", "interest">>

\* default_judgment.read_notice_interest_and_registry
read_notice_interest_and_registry(notice_pages) ==
    [registry_location |-> get_like(get_fields(notice_pages), REGISTRY_KEYS),
     interest_amount |-> get_like(get_fields(notice_pages), INTEREST_KEYS)]

\* default_judgment.fill_default_order: the writer that is written out
fill_default_order(parsed_values, notice_pages, template_pages, registry_location_override) ==
    LET notice == read_notice_interest_and_registry(notice_pages)
        left_block == build_left_text_three_blocks(parsed_values.interest_rate,
                                                   parsed_values.date_range)
        amount_a == compute_principal_amount(parsed_values, notice.interest_amount)
        amount_b == format_currency(DEFAULT_EXPENSES)
        amount_c == notice.interest_amount
        amount_e == format_currency(DEFAULT_APPLICATION_FEE)
        w0 == [pages |-> template_pages, updates |-> <<>>]
        defendant_full == parsed_values.defendant_full
        w1 == IF defendant_full # ""
              THEN write_field_all_pages(
                       write_field_all_pages(w0, FIELD_KEYS.defendant_1, Str(defendant_full)),
                       FIELD_KEYS.defendant_2, Str(defendant_full))
              ELSE w0
        w2 == write_field_all_pages(w1, FIELD_KEYS.left_text, Str(left_block))
        w3 == put_amount(w2, FIELD_KEYS.amount_a, amount_a)
        w4 == put_amount(w3, FIELD_KEYS.amount_b, amount_b)
        w5 == put_amount(w4, FIELD_KEYS.amount_c, amount_c)
        w6 == put_amount(w5, FIELD_KEYS.amount_e, amount_e)
        registry_location == IF notice.registry_location # ""
                             THEN notice.registry_location ELSE registry_location_override
    IN  IF registry_location # ""
        THEN write_field_all_pages(w6, FIELD_KEYS.registry_loc, Str(registry_location))
        ELSE w6

\* the loop of bc_claims.create_notice_of_claim_pdf over the pages, from
\* page p on; on a page without "/Annots" update_page_form_field_values
\* either returns at once or raises KeyError, by the version of pypdf
RECURSIVE UpdateAllPages(_, _, _, _)
UpdateAllPages(w, p, field_values, lenient) ==
    IF p > Len(w.pages) THEN [writer |-> w, error |-> ""]
    ELSE IF w.pages[p].annots
    THEN UpdateAllPages(update_page_form_field_values(w, p, field_values),
                        p + 1, field_values, lenient)
    ELSE LET called == [w EXCEPT !.updates =
                            Append(@, [page |-> p, values |-> field_values])]
         IN  IF lenient THEN UpdateAllPages(called, p + 1, field_values, lenient)
             ELSE [writer |-> called, error |-> "KeyError: '/Annots'"]

-----------------------------------------------------------------------------
(* The PDF fillers run on a template: fill_default_order on the default    *)
(* order form with the values parsed from the claim and the notice of      *)
(* claim it reads, create_notice_of_claim_pdf on the notice form with the  *)
(* field values built from the mapping.                                    *)

Page(annots, fields) == [annots |-> annots, fields |-> fields]

\* the registry field of a default order form, by form revision
RegistryFields ==
    {Field("location", "", ""), Field("courtLoc", "Registry Location", "")}

OrderFirstPage(registry) ==
    Page(TRUE, <<Field("defendant", "", ""), Field("def", "", ""),
                 Field("terms", "", ""), Field("claim", "", ""),
                 Field("expenses", "", ""), Field("interest", "", ""),
                 Field("fee", "", ""), registry>>)

SecondPages == {Page(TRUE, <<Field("defendant", "", "")>>), Page(FALSE, <<>>)}

OrderTemplates ==
    {<<OrderFirstPage(registry), second>> :
        registry \in RegistryFields, second \in SecondPages}

\* the filled notice of claim that fill_default_order reads
Notices ==
    {<<Page(TRUE, <<Field("location", "", "Vancouver"), Field("amountb", "", "$25.50")>>)>>,
     <<Page(TRUE, <<Field("courtLoc", "Registry Location", " Surrey "),
                    Field("amountb", "", "")>>)>>,
     <<Page(TRUE, <<Field("location", "", "Vancouver"), Field("amountb", "", "25.50")>>)>>,
     <<Page(TRUE, <<Field("location", "", "Vancouver"), Field("amountb", "", "n/a")>>)>>,
     <<Page(TRUE, <<>>)>>}

\* the values parse_claim_schedule_a returns
ParsedValues ==
    [defendant_full : {"", "ANN LEE"},
     interest_rate : {"", "21.99"},
     date_range : {"Jan 06, 2024 to Feb 05, 2024"},
     principal_last_stmt : {"", "$1,000.00", "$0.00"},
     total_claimed : {"", "$1,511.00", "$200.00"}]

Overrides == {"", "Victoria"}

OrderInputs ==
    [values : ParsedValues, notice : Notices, registry_location_override : Overrides]

\* the notice of claim form: its fields hold the values of the blank form
NoticeTemplates ==
    {<<Page(TRUE, <<Field("defendant", "", ""), Field("phoned", "", "(000) 000-0000"),
                    Field("total", "", "$0.00")>>), second>> :
        second \in {Page(TRUE, <<Field("total2", "", "")>>), Page(FALSE, <<>>)}}

\* the result of build_pdf_field_values_from_data for two mappings
NoticeFieldValues ==
    {[defendant |-> "ANN LEE", phoned |-> "6045551234", total |-> "$1,250.50",
      total2 |-> "$1,486.50"],
     [defendant |-> "ANN LEE", phoned |-> "", total |-> "$1,250.50",
      total2 |-> "$1,486.50"]}

NoticeInputs == [field_values : NoticeFieldValues]

PDF_FILLERS == {"default_judgment", "bc_claims"}

InitPdf ==
    /\ IdleRuns
    /\ IdleGenerate
    /\ IdleHelpers
    /\ IdleMerge
    /\ IdleAgg
    /\ IdleApp
    /\ IdleFormat
    /\ IdleDocx
    /\ pfiller \in PDF_FILLERS
    /\ \/ pfiller = "default_judgment" /\ form \in OrderTemplates
          /\ pinputs \in OrderInputs
       \/ pfiller = "bc_claims" /\ form \in NoticeTemplates
          /\ pinputs \in NoticeInputs
    /\ writer = [pages |-> form, updates |-> <<>>]
    /\ ppc = "call"
    /\ perror = ""

\* default_judgment.fill_default_order
FillDefaultOrder ==
    /\ ppc = "call" /\ pfiller = "default_judgment"
    /\ writer' = fill_default_order(pinputs.values, pinputs.notice, form,
                                    pinputs.registry_location_override)
    /\ ppc' = "returned"
    /\ UNCHANGED <<pfiller, form, pinputs, perror>>
    /\ UNCHANGED notPdfVars

\* bc_claims.create_notice_of_claim_pdf
CreateNoticeOfClaimPdf ==
    /\ ppc = "call" /\ pfiller = "bc_claims"
    /\ \E lenient \in BOOLEAN :
          LET outcome == UpdateAllPages([pages |-> form, updates |-> <<>>], 1,
                                        pinputs.field_values, lenient)
          IN  /\ writer' = outcome.writer
              /\ perror' = outcome.error
              /\ ppc' = IF outcome.error = "" THEN "returned" ELSE "raised"
    /\ UNCHANGED <<pfiller, form, pinputs>>
    /\ UNCHANGED notPdfVars

NextPdf == FillDefaultOrder \/ CreateNoticeOfClaimPdf

SpecPdf == InitPdf /\ [][NextPdf]_vars

-----------------------------------------------------------------------------
(* Claims about the PDF fillers                                            *)

\* the pages whose fields differ between the template and the filled form
ChangedPages == {p \in DOMAIN form : writer.pages[p] # form[p]}

\* C9 as the specification states it: a PDF filler that has run raised
\* nothing, every update it made carried only non-empty values and went to
\* a page that has annotations, and no page without annotations changed.
C9_WritesOnlyNonEmptyToAnnotatedPages_AsStated ==
    ppc \in {"returned", "raised"} =>
        /\ perror = ""
        /\ \A i \in DOMAIN writer.updates :
              /\ form[writer.updates[i].page].annots
              /\ \A k \in DOMAIN writer.updates[i].values :
                    writer.updates[i].values[k] # ""
        /\ \A p \in ChangedPages : form[p].annots

\* the registry location fill_default_order has to write
RegistryLocation ==
    IF read_notice_interest_and_registry(pinputs.notice).registry_location # ""
    THEN read_notice_interest_and_registry(pinputs.notice).registry_location
    ELSE pinputs.registry_location_override

\* the field keys of the form the logical name resolves to: an exact key,
\* otherwise the first field whose key, title or tooltip contains an alias
ResolvedKeys(fields, keys) ==
    LET Alike(j) == \E i \in DOMAIN keys : Contains(Haystack(fields[j]), Lower(keys[i]))
    IN  IF \E j \in DOMAIN fields : fields[j].key = keys[1] THEN {keys[1]}
        ELSE {fields[j].key : j \in {j \in DOMAIN fields :
                                       Alike(j) /\ \A h \in 1..(j - 1) : ~Alike(h)}}

\* C10 as the specification states it: when fill_default_order has a
\* registry location to write, the field of the form that the logical name
\* resolves to, by exact key or else by alias, holds it on every annotated
\* page; with no such field nothing is raised.
C10_AliasFieldResolvedAndWritten_AsStated ==
    (pfiller = "default_judgment" /\ ppc = "returned" /\ RegistryLocation # "") =>
        /\ perror = ""
        /\ \A key \in ResolvedKeys(get_fields(form), REGISTRY_KEYS) :
              \A p \in DOMAIN form :
                 form[p].annots =>
                    \A i \in DOMAIN writer.pages[p].fields :
                       writer.pages[p].fields[i].key = key =>
                          writer.pages[p].fields[i].V = RegistryLocation

-----------------------------------------------------------------------------
(* The helper functions of the workflows: filename sanitizers, currency    *)
(* and phone formatters, date resolution.  A call returns a value or       *)
(* raises: Raised(type) stands for the exception.                          *)

Raised(type) == [kind |-> "raise", type |-> type]

\* the strings of at most n characters over chars
RECURSIVE StringsUpTo(_, _)
StringsUpTo(chars, n) ==
    IF n = 0 THEN {""}
    ELSE StringsUpTo(chars, n - 1)
             \cup {c \o s : c \in chars, s \in StringsUpTo(chars, n - 1)}

\* re.sub(r"[chars]+", rep, s): every maximal run of chars becomes rep
RECURSIVE SubRuns(_, _, _)
SubRuns(s, chars, rep) ==
    IF s = "" THEN ""
    ELSE IF Head(s) \in chars THEN rep \o SubRuns(LStrip(s, chars), chars, rep)
    ELSE Head(s) \o SubRuns(Tail(s), chars, rep)

\* re.sub(r"[^chars]", "", s): only the characters of chars are kept
RECURSIVE KeepChars(_, _)
KeepChars(s, chars) ==
    IF s = "" THEN ""
    ELSE (IF Head(s) \in chars THEN Head(s) ELSE "") \o KeepChars(Tail(s), chars)

\* the class [<>:"/\\|?*]
FORBIDDEN == {"<", ">", ":", "\"", "/", "\\", "|", "?", "*"}

\* a safe_filename that keeps an empty result
safe_filename_keep_empty(value) ==
    Strip(SubRuns(SubRuns(value, FORBIDDEN, "_"), {"_"}, "_"), {" ", "."})

\* bc_claims.safe_filename; default_judgment, demand_letter and dismissal
\* define the same function
safe_filename(value) ==
    LET sanitized == Strip(SubRuns(SubRuns(value, FORBIDDEN, "_"), {"_"}, "_"),
                           {" ", "."})
    IN  IF sanitized = "" THEN "output" ELSE sanitized

\* the class [A-Za-z0-9 _-]
FILENAME_CLASS ==
    LowerSet \cup UpperSet \cup {DigitChar(n) : n \in 0..9} \cup {" ", "_", "-"}

\* ontario_claims.sanitize_for_filename
sanitize_for_filename(text, space_replacement) ==
    LET kept == Strip(KeepChars(text, FILENAME_CLASS), Whitespace)
        spaced == SubRuns(kept, Whitespace, " ")
        cleaned == IF space_replacement # " "
                   THEN Replace(spaced, " ", space_replacement) ELSE spaced
    IN  IF cleaned = "" THEN "output" ELSE cleaned

MaxNameLen == 4

\* the characters of the names given to the sanitizers: a letter, the
\* characters the sanitizers treat apart, two forbidden characters
NameChars == {"a", "_", " ", ".", "/", "<"}

SanitizerCalls ==
    {[callee |-> "safe_filename", args |-> <<Str(s)>>] :
        s \in StringsUpTo(NameChars, MaxNameLen)}
    \cup {[callee |-> "sanitize_for_filename", args |-> <<Str(s), Str(r)>>] :
            s \in StringsUpTo(NameChars, MaxNameLen), r \in {" ", "_"}}

\* ontario_claims.format_currency of a string or of a float of whole cents
ontario_format_currency(value) ==
    IF value.kind = "num"
    THEN Str(FormatMoney(value.n < 0, IF value.n < 0 THEN 0 - value.n ELSE value.n))
    ELSE LET Money(amount) ==
                 IF amount.ok THEN Str(FormatMoney(amount.neg, HalfUpCents(amount)))
                 ELSE Raised("InvalidOperation")
             Of(cleaned) == Money(ParseDecimal(IF cleaned = "" THEN "0" ELSE cleaned))
         IN  Of(Strip(Replace(Replace(value.s, "$", ""), ",", ""), Whitespace))

MaxAmountLen == 5

AmountChars == {"2", "5", ".", "a"}

\* what precedes the characters of an amount
AmountPrefixes == {"", "$", "-", " ", "$2,"}

AmountTexts ==
    {prefix \o s : prefix \in AmountPrefixes, s \in StringsUpTo(AmountChars, MaxAmountLen)}

\* floats of whole cents
AmountNumbers == {0, 5, 123450}

CURRENCY_FORMATTERS == {"to_money_str", "format_currency"}

CurrencyCalls ==
    {[callee |-> f, args |-> <<Str(s)>>] : f \in CURRENCY_FORMATTERS, s \in AmountTexts}
    \cup {[callee |-> f, args |-> <<Num(n)>>] : f \in CURRENCY_FORMATTERS, n \in AmountNumbers}

DigitSet == {DigitChar(n) : n \in 0..9}

\* bc_claims.normalize_phone
normalize_phone(value) ==
    LET digits == KeepChars(value, DigitSet)
    IN  IF Len(digits) >= 10 THEN digits ELSE ""

\* ontario_claims.format_phone
format_phone(number) ==
    LET digits == KeepChars(number, DigitSet)
    IN  IF Len(digits) = 10
        THEN SubSeq(digits, 1, 3) \o "-" \o SubSeq(digits, 4, 6) \o "-"
                 \o SubSeq(digits, 7, Len(digits))
        ELSE digits

\* phone numbers as the documents print them: nine or ten digits, plain or
\* punctuated, after a country code or a label, before an extra digit or an
\* extension mark
PhoneTexts ==
    {prefix \o body \o suffix :
        prefix \in {"", "1", "+1 ", "tel: "},
        body \in {"", "604555123", "6045551234", "(604) 555-1234", "604-555-1234"},
        suffix \in {"", "5", " x"}}

PHONE_FORMATTERS == {"normalize_phone", "format_phone"}

PhoneCalls ==
    {[callee |-> f, args |-> <<Str(s)>>] : f \in PHONE_FORMATTERS, s \in PhoneTexts}

DateValue(year, month, day) ==
    [kind |-> "date", year |-> year, month |-> month, day |-> day]

\* the match of r"([A-Za-z]{3})(\d{1,2})" at the start of the token: the
\* month name and the day, <<>> when there is no match
MonthDayMatch(token) ==
    IF Len(token) >= 4 /\ (\A i \in 1..3 : IsAlpha(Char(token, i)))
       /\ IsDigit(Char(token, 4))
    THEN <<SubSeq(token, 1, 3),
           IF Len(token) >= 5 /\ IsDigit(Char(token, 5))
           THEN SubSeq(token, 4, 5) ELSE SubSeq(token, 4, 4)>>
    ELSE <<>>

\* a resolve_statement_date that always takes the year of the start
resolve_statement_date_start_year(token, start, end) ==
    LET match == MonthDayMatch(token)
        month == MonthOf(match[1])
        day_int == StrToNat(match[2])
    IN  IF match = <<>> THEN Raised("OntarioClaimsError")
        ELSE IF month = 0 THEN Raised("ValueError")
        ELSE IF day_int < 1 \/ day_int > DaysIn(month, start.year) THEN Raised("ValueError")
        ELSE DateValue(start.year, month, day_int)

\* ontario_claims.resolve_statement_date; datetime.strptime(month_name,
\* "%b") and datetime(year, month, day_int) raise ValueError
resolve_statement_date(token, start, end) ==
    LET match == MonthDayMatch(token)
        month == MonthOf(match[1])
        day_int == StrToNat(match[2])
        year == IF end.year > start.year /\ month <= end.month /\ month < start.month
                THEN end.year ELSE start.year
    IN  IF match = <<>> THEN Raised("OntarioClaimsError")
        ELSE IF month = 0 THEN Raised("ValueError")
        ELSE IF day_int < 1 \/ day_int > DaysIn(month, year) THEN Raised("ValueError")
        ELSE DateValue(year, month, day_int)

\* statement periods: within a year, across a year boundary, a whole year
StatementPeriods ==
    {<<DateValue(2024, 1, 2), DateValue(2024, 3, 1)>>,
     <<DateValue(2023, 12, 7), DateValue(2024, 1, 6)>>,
     <<DateValue(2023, 11, 15), DateValue(2024, 2, 10)>>,
     <<DateValue(2024, 2, 10), DateValue(2025, 2, 9)>>}

DateTokens ==
    {MONTH_ABBR[m] \o day : m \in 1..12, day \in {"1", "05", "15", "29", "31", "0"}}
    \cup {"", "Xyz15", "15Feb", "Fe15", "feb05", "Feb15 PAYMENT"}

DateCalls ==
    {[callee |-> "resolve_statement_date", args |-> <<Str(t), period[1], period[2]>>] :
        t \in DateTokens, period \in StatementPeriods}

\* the text of a template: some placeholders of the schedule, then some of
\* the claim form
TemplateTexts ==
    {a \o "\n" \o b :
        a \in {"Schedule A", "SIMPLE NAME INSERT", "SIMPLE NAME INSERT owes TOTALDEBTINSERT"},
        b \in {"Form 7A", "AKA INSERT", "AKA INSERT on TODAYS DATE"}}

TemplateCalls ==
    {[callee |-> "identify_template", args |-> <<Str(t)>>] : t \in TemplateTexts}

HelperCalls ==
    SanitizerCalls \cup CurrencyCalls \cup PhoneCalls \cup DateCalls \cup TemplateCalls

InitHelpers ==
    /\ IdleRuns
    /\ IdleGenerate
    /\ IdleMerge
    /\ IdleAgg
    /\ IdleApp
    /\ IdleFormat
    /\ IdleDocx
    /\ IdlePdf
    /\ \E call \in HelperCalls : callee = call.callee /\ args = call.args
    /\ ret = None
    /\ hpc = "call"

\* the call ends: it returns value, or raises when value is an exception
Return(value) ==
    /\ ret' = value
    /\ hpc' = IF value.kind = "raise" THEN "raised" ELSE "returned"
    /\ UNCHANGED <<callee, args>>
    /\ UNCHANGED notHelperVars

CallSafeFilename ==
    /\ hpc = "call" /\ callee = "safe_filename"
    /\ Return(Str(safe_filename(args[1].s)))

CallSanitizeForFilename ==
    /\ hpc = "call" /\ callee = "sanitize_for_filename"
    /\ Return(Str(sanitize_for_filename(args[1].s, args[2].s)))

CallToMoneyStr ==
    /\ hpc = "call" /\ callee = "to_money_str"
    /\ Return(Str(to_money_str(args[1])))

CallFormatCurrency ==
    /\ hpc = "call" /\ callee = "format_currency"
    /\ Return(ontario_format_currency(args[1]))

CallNormalizePhone ==
    /\ hpc = "call" /\ callee = "normalize_phone"
    /\ Return(Str(normalize_phone(args[1].s)))

CallFormatPhone ==
    /\ hpc = "call" /\ callee = "format_phone"
    /\ Return(Str(format_phone(args[1].s)))

CallResolveStatementDate ==
    /\ hpc = "call" /\ callee = "resolve_statement_date"
    /\ Return(resolve_statement_date(args[1].s, args[2], args[3]))

CallIdentifyTemplate ==
    /\ hpc = "call" /\ callee = "identify_template"
    /\ Return(IF identify_template(args[1].s) = "" THEN None
              ELSE Str(identify_template(args[1].s)))

NextHelpers ==
    \/ CallIdentifyTemplate
    \/ CallResolveStatementDate
    \/ CallNormalizePhone
    \/ CallFormatPhone
    \/ CallSafeFilename
    \/ CallSanitizeForFilename
    \/ CallToMoneyStr
    \/ CallFormatCurrency

SpecHelpers == InitHelpers /\ [][NextHelpers]_vars

-----------------------------------------------------------------------------
(* Claims about the helper functions                                       *)

\* the sanitizer called, applied to a name
Sanitize(name) ==
    IF callee = "safe_filename" THEN safe_filename(name)
    ELSE sanitize_for_filename(name, args[2].s)

IsSanitizerCall == callee \in {"safe_filename", "sanitize_for_filename"}

\* C11: what a filename sanitizer returns is non-empty, holds none of the
\* characters < > : " / \ | ? * and is returned unchanged when it is
\* sanitized again.
C11_SanitizeIdempotentNonEmptySafe ==
    (IsSanitizerCall /\ hpc = "returned") =>
        /\ Sanitize(ret.s) = ret.s
        /\ ret.s # ""
        /\ \A i \in 1..Len(ret.s) : Char(ret.s, i) \notin FORBIDDEN

\* a name that the sanitizer changed to something other than "output"
C11_Witness ==
    /\ IsSanitizerCall /\ hpc = "returned"
    /\ Contains(args[1].s, "/") /\ Contains(args[1].s, " ")
    /\ ret.s # args[1].s /\ ret.s # "output"

IsCurrencyCall == callee \in CURRENCY_FORMATTERS

\* the amount a currency formatter is given, with "$", thousands separators
\* and surrounding blanks taken off
GivenAmount ==
    IF args[1].kind = "num"
    THEN [ok |-> TRUE, neg |-> args[1].n < 0,
          units |-> IF args[1].n < 0 THEN 0 - args[1].n ELSE args[1].n, scale |-> 2]
    ELSE ParseDecimal(Strip(Replace(Replace(args[1].s, "$", ""), ",", ""), Whitespace))

\* C12 as the specification states it: a currency formatter given an
\* amount returns "$", the amount rounded half up to two decimals with
\* thousands separators; what it returns is a fixed point of the formatter.
C12_RoundHalfUpTwoDecimals_AsStated ==
    (IsCurrencyCall /\ hpc = "returned" /\ GivenAmount.ok) =>
        /\ ret = Str(FormatMoney(GivenAmount.neg, HalfUpCents(GivenAmount)))
        /\ ret = IF callee = "to_money_str" THEN Str(to_money_str(ret))
                 ELSE ontario_format_currency(ret)

\* C13 as the specification states it: a currency formatter given a text
\* that is no decimal amount returns that text unchanged and raises
\* nothing.
C13_UnparsableReturnedAsIs_AsStated ==
    (IsCurrencyCall /\ hpc \in {"returned", "raised"} /\ ~GivenAmount.ok) =>
        hpc = "returned" /\ ret = args[1]

\* the digits of the text a phone formatter is given
GivenDigits == KeepChars(args[1].s, DigitSet)

\* C14 as the specification states it: normalize_phone returns the digits
\* of the text when there are exactly ten and "" otherwise; format_phone
\* renders ten digits as 3-3-4 with hyphens.
C14_TenDigitsOrEmpty_AsStated ==
    /\ (callee = "normalize_phone" /\ hpc = "returned") =>
          ret.s = IF Len(GivenDigits) = 10 THEN GivenDigits ELSE ""
    /\ (callee = "format_phone" /\ hpc = "returned" /\ Len(GivenDigits) = 10) =>
          ret.s = SubSeq(GivenDigits, 1, 3) \o "-" \o SubSeq(GivenDigits, 4, 6)
                      \o "-" \o SubSeq(GivenDigits, 7, 10)

\* the month number and the day of a token made of a month abbreviation
\* and a day
TokenMonth == MonthOf(SubSeq(args[1].s, 1, 3))
TokenDay == StrToNat(MonthDayMatch(args[1].s)[2])

\* the statement period spans a year boundary
SpansYears == args[3].year > args[2].year

\* C15: the date resolve_statement_date returns has the month and the day
\* of the token; its year is the year of the end of the period when the
\* period spans a year boundary and the month of the token is less than
\* the month of the start and not greater than the month of the end, and
\* the year of the start otherwise.
C15_YearFromPeriod ==
    (callee = "resolve_statement_date" /\ hpc = "returned") =>
        /\ ret.month = TokenMonth /\ ret.day = TokenDay
        /\ ret.year = IF SpansYears /\ TokenMonth < args[2].month
                         /\ ~(TokenMonth > args[3].month)
                      THEN args[3].year ELSE args[2].year
        /\ (args[1].s = "Feb15" /\ args[2] = DateValue(2024, 1, 2)
                /\ args[3] = DateValue(2024, 3, 1)) => ret = DateValue(2024, 2, 15)

\* a token of the new year, in a period across the year boundary, resolved
\* to the year of the end
C15_Witness ==
    /\ callee = "resolve_statement_date" /\ hpc = "returned"
    /\ SpansYears /\ TokenMonth < args[2].month /\ ret.year = args[3].year

-----------------------------------------------------------------------------
(* Claims about the text extractors (SpecAggregate)                        *)

\* the record the extractor of its type returns for the file of that field
ExtractedFrom(field) ==
    RunExtractor(FileTypeOf(paths[field].name), paths[field].text)

\* C16 as the specification states it: in the record an extractor returned
\* for a file that was processed, no key is present with the value None.
C16_NoNullFields_AsStated ==
    \A i \in DOMAIN processed :
        \A k \in DOMAIN ExtractedFrom(processed[i]) :
            ExtractedFrom(processed[i])[k] # None

\* the number of the placeholders of a template type in the text given
Score(keys) == Cardinality({key \in keys : Contains(args[1].s, key)})

\* C17 as the specification states it: identify_template returns the type
\* whose placeholders score strictly highest in the text, and None (no
\* type) when the two scores are equal or both zero.
C17_StrictlyHighestOrFailure_AsStated ==
    (callee = "identify_template" /\ hpc = "returned") =>
        ret = IF Score(SCHEDULE_PLACEHOLDERS) > Score(CLAIM_PLACEHOLDERS)
              THEN Str("SCHEDULE")
              ELSE IF Score(CLAIM_PLACEHOLDERS) > Score(SCHEDULE_PLACEHOLDERS)
              THEN Str("CLAIM")
              ELSE None

-----------------------------------------------------------------------------
(* The document generation calls and their templates:                      *)
(* ontario_claims.generate_claim_documents, bc_claims.run_workflow (the    *)
(* same steps as app.process_bc_claims) and                                *)
(* demand_letter.fill_demand_letter.  assets is the set of the declared    *)
(* template paths that exist.                                              *)

GENERATORS == {"ontario_claims", "bc_claims", "demand_letter"}

\* the template paths each generator is given
DeclaredTemplates(g) ==
    CASE g = "ontario_claims" -> {"schedule_template", "claim_template"}
      [] g = "bc_claims" -> {"SCHEDULE_TEMPLATE", "NOTICE_TEMPLATE"}
      [] OTHER -> {"DEFAULT_TEMPLATE"}

\* the source documents each generator parses
SourceDocuments(g) ==
    IF g = "demand_letter" THEN {"pdf_path"}
    ELSE {"mrs_path", "mrc_path", "mrp_path", "cbr_path"}

CaseNames == {"ANN LEE", "BOB ROY", "A/B CO.", ""}

InitGenerate ==
    /\ IdleRuns
    /\ IdleMerge
    /\ IdleAgg
    /\ IdleApp
    /\ IdleFormat
    /\ IdleDocx
    /\ IdlePdf
    /\ IdleHelpers
    /\ generator \in GENERATORS
    /\ assets \in SUBSET DeclaredTemplates(generator)
    /\ casename \in CaseNames
    /\ gpc = "call"
    /\ parsed = {}
    /\ gerror = ""
    /\ produced = {}

\* the call moves on to position next_pc
GenStep(next_pc) ==
    /\ gpc' = next_pc
    /\ UNCHANGED <<generator, assets, casename, gerror>>
    /\ UNCHANGED notGenVars

\* the call raises
GenRaise(exception) ==
    /\ gpc' = "raised"
    /\ gerror' = exception
    /\ UNCHANGED <<generator, assets, casename, parsed, produced>>
    /\ UNCHANGED notGenVars

\* generate_claim_documents: the two exists() tests at its start
OntarioCheckTemplates ==
    /\ generator = "ontario_claims" /\ gpc = "call"
    /\ IF "schedule_template" \notin assets
       THEN GenRaise("OntarioClaimsError: Schedule template not found")
       ELSE IF "claim_template" \notin assets
       THEN GenRaise("OntarioClaimsError: Claim template not found")
       ELSE GenStep("parse") /\ UNCHANGED <<parsed, produced>>

\* generate_claim_documents: parse_mrs_statement ... extract_credit_report_data
OntarioParseSources ==
    /\ generator = "ontario_claims" /\ gpc = "parse"
    /\ parsed' = SourceDocuments(generator)
    /\ GenStep("fill") /\ UNCHANGED produced

\* generate_claim_documents: the two documents filled and returned
OntarioFillTemplates ==
    /\ generator = "ontario_claims" /\ gpc = "fill"
    /\ produced' =
          {"filled_template_Schedule A - 1 Credit Card_"
               \o sanitize_for_filename(casename, " ") \o ".docx",
           "Plaintiffs_Claim_" \o sanitize_for_filename(casename, "_") \o ".docx"}
    /\ GenStep("returned") /\ UNCHANGED parsed

\* run_workflow: aggregate_claims_data and format_data_for_template
WorkflowAggregate ==
    /\ generator = "bc_claims" /\ gpc = "call"
    /\ parsed' = SourceDocuments(generator)
    /\ GenStep("create_schedule") /\ UNCHANGED produced

\* run_workflow: create_schedule_a_document; Document(template_path) raises
\* PackageNotFoundError when the path does not exist
WorkflowCreateSchedule ==
    /\ generator = "bc_claims" /\ gpc = "create_schedule"
    /\ IF "SCHEDULE_TEMPLATE" \notin assets
       THEN GenRaise("PackageNotFoundError")
       ELSE GenStep("create_notice") /\ UNCHANGED <<parsed, produced>>

\* run_workflow: create_notice_of_claim_pdf; PdfReader(str(template_path))
\* raises FileNotFoundError when the path does not exist
WorkflowCreateNotice ==
    /\ generator = "bc_claims" /\ gpc = "create_notice"
    /\ IF "NOTICE_TEMPLATE" \notin assets
       THEN GenRaise("FileNotFoundError")
       ELSE GenStep("save") /\ UNCHANGED <<parsed, produced>>

\* run_workflow: the two files saved
WorkflowSave ==
    /\ generator = "bc_claims" /\ gpc = "save"
    /\ produced' = {safe_filename(casename) \o " - Schedule A.docx",
                    safe_filename(casename) \o " - Notice of Claim.pdf"}
    /\ GenStep("returned") /\ UNCHANGED parsed

\* fill_demand_letter: extract_data_from_pdf
LetterExtractData ==
    /\ generator = "demand_letter" /\ gpc = "call"
    /\ parsed' = SourceDocuments(generator)
    /\ GenStep("create") /\ UNCHANGED produced

\* fill_demand_letter: create_demand_letter_doc opens the template when it
\* exists and builds the letter paragraph by paragraph when it does not
LetterCreateDoc ==
    /\ generator = "demand_letter" /\ gpc = "create"
    /\ GenStep("write") /\ UNCHANGED <<parsed, produced>>

\* fill_demand_letter: output_path.write_bytes(letter_bytes)
LetterWrite ==
    /\ generator = "demand_letter" /\ gpc = "write"
    /\ produced' =
          {safe_filename(IF casename = "" THEN "NAME NOT FOUND" ELSE casename)
               \o " - BC Demand Letter.docx"}
    /\ GenStep("returned") /\ UNCHANGED parsed

NextGenerate ==
    \/ OntarioCheckTemplates
    \/ OntarioParseSources
    \/ OntarioFillTemplates
    \/ WorkflowAggregate
    \/ WorkflowCreateSchedule
    \/ WorkflowCreateNotice
    \/ WorkflowSave
    \/ LetterExtractData
    \/ LetterCreateDoc
    \/ LetterWrite

SpecGenerate == InitGenerate /\ [][NextGenerate]_vars

-----------------------------------------------------------------------------
(* Claims about the generation calls                                       *)

TemplateMissing == DeclaredTemplates(generator) \ assets # {}

\* C18 as the specification states it: when a declared template path does
\* not exist, the generation call parses no source document and produces
\* no document, and it ends by raising.
C18_TemplateNotFoundBeforeParsing_AsStated ==
    (generator # "" /\ TemplateMissing) =>
        /\ parsed = {}
        /\ produced = {}
        /\ gpc # "returned"

-----------------------------------------------------------------------------
(* Claims about the current date (SpecFormat)                              *)

\* C19 as the specification states it: the mapping format_data_for_template
\* returned for a record is the mapping it returns for the same record on
\* any other day.
C19_MappingIndependentOfClock_AsStated ==
    fpc = "returned" =>
        \A other_day \in Todays : format_data_for_template(data, other_day) = formatted

-----------------------------------------------------------------------------
(* Two invocations of the BC claims pipeline running concurrently.  A web  *)
(* invocation is a request to process_step: _validate_files saves the      *)
(* uploads under a new session directory and process_bc_claims writes the  *)
(* outputs there.  A command-line invocation is a call of bc_claims.main   *)
(* in a process: main sets the module global OUTPUT_DIR of the process     *)
(* when --output-dir is given, run_workflow saves under OUTPUT_DIR.  A     *)
(* path is the sequence of its parts.                                      *)

INVOCATIONS == {1, 2}

\* uuid.uuid4().hex: a value no other session has
SessionIds == {"5f2c", "a91e"}

UploadNames == {"MRP.pdf", "MRC.pdf", "MRS.pdf", "CBR.pdf"}

\* MODULE_DIR.parent / "output"
DefaultOutputDir == <<"output">>

\* the names of the two files of a case
OutputNames(defendant) ==
    {safe_filename(defendant) \o " - Schedule A.docx",
     safe_filename(defendant) \o " - Notice of Claim.pdf"}

\* a request to the web application for a case
WebInvocations ==
    [kind : {"web"}, defendant : {"ANN LEE", "BOB ROY"}, process : {0},
     output_dir : {""}, session_id : {""}, pc : {"validate_files"}]

\* a call of main in a process, with or without --output-dir
CliInvocations ==
    [kind : {"cli"}, defendant : {"ANN LEE", "BOB ROY"}, process : {1, 2},
     output_dir : {"", "out1", "out2"}, session_id : {""}, pc : {"main"}]

InitRuns ==
    /\ IdleMerge
    /\ IdleAgg
    /\ IdleApp
    /\ IdleFormat
    /\ IdleDocx
    /\ IdlePdf
    /\ IdleHelpers
    /\ IdleGenerate
    /\ invocation \in [INVOCATIONS -> WebInvocations \cup CliInvocations]
    /\ OUTPUT_DIR = [p \in {1, 2} |-> DefaultOutputDir]
    /\ touched = {}

Writes(i, dir, names) == {[by |-> i, path |-> dir \o <<name>>] : name \in names}

\* app._validate_files: the uploads saved under SESSIONS_DIR / session_id
ValidateFilesOf(i) ==
    /\ invocation[i].kind = "web" /\ invocation[i].pc = "validate_files"
    /\ \E session_id \in SessionIds :
          /\ \A j \in INVOCATIONS : invocation[j].session_id # session_id
          /\ invocation' = [invocation EXCEPT ![i].session_id = session_id,
                                              ![i].pc = "processor"]
          /\ touched' = touched
                \cup Writes(i, <<"sessions", session_id, "uploads">>, UploadNames)
    /\ UNCHANGED OUTPUT_DIR
    /\ UNCHANGED notRunVars

\* app.process_step: step.processor(session_dir, saved_paths), the outputs
\* of process_bc_claims written under session_dir / "output"
ProcessorOf(i) ==
    /\ invocation[i].kind = "web" /\ invocation[i].pc = "processor"
    /\ invocation' = [invocation EXCEPT ![i].pc = "done"]
    /\ touched' = touched
          \cup Writes(i, <<"sessions", invocation[i].session_id, "output">>,
                      OutputNames(invocation[i].defendant))
    /\ UNCHANGED OUTPUT_DIR
    /\ UNCHANGED notRunVars

\* bc_claims.main up to run_workflow: global OUTPUT_DIR is assigned when
\* args.output_dir is given
MainOf(i) ==
    /\ invocation[i].kind = "cli" /\ invocation[i].pc = "main"
    /\ invocation' = [invocation EXCEPT ![i].pc = "run_workflow"]
    /\ OUTPUT_DIR' = IF invocation[i].output_dir # ""
                     THEN [OUTPUT_DIR EXCEPT ![invocation[i].process] =
                              <<invocation[i].output_dir>>]
                     ELSE OUTPUT_DIR
    /\ UNCHANGED touched
    /\ UNCHANGED notRunVars

\* bc_claims.run_workflow: the two files saved under OUTPUT_DIR
RunWorkflowOf(i) ==
    /\ invocation[i].kind = "cli" /\ invocation[i].pc = "run_workflow"
    /\ invocation' = [invocation EXCEPT ![i].pc = "done"]
    /\ touched' = touched
          \cup Writes(i, OUTPUT_DIR[invocation[i].process],
                      OutputNames(invocation[i].defendant))
    /\ UNCHANGED OUTPUT_DIR
    /\ UNCHANGED notRunVars

ValidateFilesStep == \E i \in INVOCATIONS : ValidateFilesOf(i)
ProcessorStep == \E i \in INVOCATIONS : ProcessorOf(i)
MainStep == \E i \in INVOCATIONS : MainOf(i)
RunWorkflowStep == \E i \in INVOCATIONS : RunWorkflowOf(i)

NextRuns == ValidateFilesStep \/ ProcessorStep \/ MainStep \/ RunWorkflowStep

SpecRuns == InitRuns /\ [][NextRuns]_vars

-----------------------------------------------------------------------------
(* Claims about concurrent invocations                                     *)

\* the directory an invocation was given for what it writes
OwnDir(i) ==
    IF invocation[i].kind = "web" THEN <<"sessions", invocation[i].session_id>>
    ELSE IF invocation[i].output_dir # "" THEN <<invocation[i].output_dir>>
    ELSE DefaultOutputDir

Under(path, dir) == Len(dir) <= Len(path) /\ SubSeq(path, 1, Len(dir)) = dir

\* C20 as the specification states it: no path is written by both
\* invocations, and every path an invocation writes is under its own
\* directory.
C20_InvocationsShareNoPath_AsStated ==
    /\ \A w1 \in touched : \A w2 \in touched : w1.path = w2.path => w1.by = w2.by
    /\ \A w \in touched : Under(w.path, OwnDir(w.by))
-----------------------------------------------------------------------------
(* ontario_claims: the statement parsers                                   *)

Min(S) == CHOOSE i \in S : \A j \in S : i <= j

\* s.split(sep) for a one-character sep
RECURSIVE Split(_, _)
Split(s, sep) ==
    LET At(i) == IF i = 0 THEN <<s>>
                 ELSE <<SubSeq(s, 1, i - 1)>> \o Split(SubSeq(s, i + 1, Len(s)), sep)
    IN  At(Find(s, sep, 1))

\* s.split(): the runs of non-blank characters
RECURSIVE Words(_)
Words(s) ==
    LET Word(rest, n) == <<SubSeq(rest, 1, n)>> \o Words(SubSeq(rest, n + 1, Len(rest)))
        From(rest) ==
            IF rest = "" THEN <<>>
            ELSE IF \E i \in 1..Len(rest) : Char(rest, i) \in Whitespace
                 THEN Word(rest, Min({i \in 1..Len(rest) : Char(rest, i) \in Whitespace}) - 1)
                 ELSE <<rest>>
    IN  From(LStrip(s, Whitespace))

\* ontario_claims.normalize_whitespace
normalize_whitespace(text) == Join(Words(text), " ")

\* the lines of load_pdf_text_and_lines: stripped, the blank ones dropped
Lines(text) ==
    LET NotBlank(line) == line # ""
        Of(raw) == SelectSeq([i \in 1..Len(raw) |-> Strip(raw[i], Whitespace)], NotBlank)
    IN  Of(Split(text, "\n"))

HEADER_PHRASE == "Prepared For Account Number Opening Date Closing Date\n"

\* the ends e of a group [A-Z ,]+ starting at q that \s+X{4} follows
GroupEnds(text, q) ==
    {e \in q..Len(text) :
        /\ \A i \in q..e : Char(text, i) \in UpperSet \cup {" ", ","}
        /\ \E x \in (e + 1)..(Len(text) - 4) :
              /\ \A i \in (e + 1)..x : Char(text, i) \in Whitespace
              /\ SubSeq(text, x + 1, x + 4) = "XXXX"}

\* header_match.group(1) of the leftmost match of
\* r"Prepared For ... Closing Date\n([A-Z ,]+?)\s+X{4}", "" when the
\* search finds none
HeaderGroup(text) ==
    LET At(q) == SubSeq(text, q, Min(GroupEnds(text, q)))
        Leftmost(starts) == IF starts = {} THEN "" ELSE At(Min(starts))
    IN  Leftmost({q \in (Len(HEADER_PHRASE) + 1)..Len(text) :
                    /\ SubSeq(text, q - Len(HEADER_PHRASE), q - 1) = HEADER_PHRASE
                    /\ GroupEnds(text, q) # {}})

\* the lines the generator of next(...) yields: those that start with the
\* name and hold "XXXX"
HeaderLines(lines, full_name) ==
    LET Matches(line) == StartsWith(line, full_name) /\ Contains(line, "XXXX")
    IN  SelectSeq(lines, Matches)

\* r"[A-Za-z]{3}\d{2}, \d{4}" matches the 11 characters at i
DateTokenAt(line, i) ==
    /\ i + 10 <= Len(line)
    /\ \A k \in 0..2 : IsAlpha(Char(line, i + k))
    /\ \A k \in {3, 4, 7, 8, 9, 10} : IsDigit(Char(line, i + k))
    /\ SubSeq(line, i + 5, i + 6) = ", "

\* re.findall(r"[A-Za-z]{3}\d{2}, \d{4}", line) from position i on
RECURSIVE FindDateTokens(_, _)
FindDateTokens(line, i) ==
    IF i + 10 > Len(line) THEN <<>>
    ELSE IF DateTokenAt(line, i)
         THEN <<SubSeq(line, i, i + 10)>> \o FindDateTokens(line, i + 11)
         ELSE FindDateTokens(line, i + 1)

\* ontario_claims.parse_compact_date: NoDate stands for ValueError
parse_compact_date(token) == StrptimeCompact(Replace(token, " ", ""))

\* the statement period of a header line: the common lines of the three
\* statement parsers from re.findall to end_date
PeriodOf(header_line, full_name) ==
    LET Dates(start_date, end_date) ==
            IF start_date = NoDate \/ end_date = NoDate THEN Raised("ValueError")
            ELSE [kind |-> "period", full_name |-> full_name, header_line |-> header_line,
                  start_date |-> DateValue(start_date.year, start_date.month, start_date.day),
                  end_date |-> DateValue(end_date.year, end_date.month, end_date.day)]
        Of(date_tokens) ==
            IF Len(date_tokens) # 2 THEN Raised("OntarioClaimsError")
            ELSE Dates(parse_compact_date(date_tokens[1]), parse_compact_date(date_tokens[2]))
    IN  Of(FindDateTokens(header_line, 1))

\* re.search(r"(X{3,}[ X\d-]*\d{4,})", header_line) finds a match
HasCardNumber(header_line) ==
    \E i \in 1..(Len(header_line) - 6) :
        /\ SubSeq(header_line, i, i + 2) = "XXX"
        /\ \E j \in (i + 6)..Len(header_line) :
              /\ \A k \in (i + 3)..j :
                    IsDigit(Char(header_line, k)) \/ Char(header_line, k) \in {" ", "X", "-"}
              /\ \A k \in (j - 3)..j : IsDigit(Char(header_line, k))

\* the common head of the three statement parsers: header_match, full_name,
\* header_line, for the MRS statement the masked card number, and the
\* statement period; next() of an exhausted generator raises StopIteration
StatementHeader(text, needs_card) ==
    LET Line(header_lines, full_name) ==
            IF header_lines = <<>> THEN Raised("StopIteration")
            ELSE IF needs_card /\ ~HasCardNumber(header_lines[1])
                 THEN Raised("OntarioClaimsError")
                 ELSE PeriodOf(header_lines[1], full_name)
        Named(full_name) == Line(HeaderLines(Lines(text), full_name), full_name)
        Matched(group) ==
            IF group = "" THEN Raised("OntarioClaimsError")
            ELSE Named(normalize_whitespace(group))
    IN  Matched(HeaderGroup(text))

\* re.search(label + r" \$([0-9,]+\.\d{2})", text) finds a match
HasAmount(text, label) ==
    \E i \in 1..(Len(text) - Len(label) - 1) :
        /\ SubSeq(text, i, i + Len(label) + 1) = label \o " $"
        /\ \E p \in (i + Len(label) + 3)..(Len(text) - 2) :
              /\ Char(text, p) = "."
              /\ IsDigit(Char(text, p + 1)) /\ IsDigit(Char(text, p + 2))
              /\ \A k \in (i + Len(label) + 2)..(p - 1) :
                    IsDigit(Char(text, k)) \/ Char(text, k) = ","

\* re.findall(r"\d+\.\d+%", line) is not empty
HasPercent(line) ==
    \E p \in 2..(Len(line) - 2) :
        /\ Char(line, p) = "." /\ IsDigit(Char(line, p - 1))
        /\ \E e \in (p + 1)..(Len(line) - 1) :
              /\ Char(line, e + 1) = "%"
              /\ \A k \in (p + 1)..e : IsDigit(Char(line, k))

SUMMARY_LABELS ==
    <<"Previous Balance", "Less Payments", "Plus Interest", "Plus Fees", "Equals New Balance">>

\* ontario_claims.parse_mrs_statement: the checks it makes in their order,
\* and of the record it returns the name and the statement period
parse_mrs_statement(text) ==
    LET Rest(header, lines) ==
            IF \A i \in 1..Len(lines) : lines[i] # header.full_name
            THEN Raised("OntarioClaimsError")
            ELSE IF \E k \in 1..Len(SUMMARY_LABELS) : ~HasAmount(text, SUMMARY_LABELS[k])
            THEN Raised("OntarioClaimsError")
            ELSE IF \A i \in 1..Len(lines) :
                        Lower(lines[i]) = "purchases"
                        => \A lookahead \in 1..3 :
                              i + lookahead <= Len(lines) => ~HasPercent(lines[i + lookahead])
            THEN Raised("OntarioClaimsError")
            ELSE [kind |-> "statement", full_name |-> header.full_name,
                  start_date |-> header.start_date, end_date |-> header.end_date]
        After(header) == IF header.kind = "raise" THEN header ELSE Rest(header, Lines(text))
    IN  After(StatementHeader(text, TRUE))

DateKey(date) == date.year * 10000 + date.month * 100 + date.day

\* max(dates) of a non-empty list of dates
MaxDate(dates) ==
    CHOOSE d \in Range(dates) : \A o \in Range(dates) : DateKey(o) <= DateKey(d)

EXCLUDED_WORDS == {"PAYMENT", "INTEREST", "FEE", "ADJUSTMENT", "CREDIT", "RETURN"}

\* the amount test of parse_last_purchase_date on the last token of a line:
\* TRUE when the line is skipped for its amount
SkippedAmount(last_token) ==
    LET Value(sign, dec) == sign < 0 \/ ~dec.ok \/ dec.neg \/ dec.units = 0
        Minus(sign, stripped) ==
            IF StartsWith(stripped, "-") THEN Value(-1, ParseDecimal(Tail(stripped)))
            ELSE Value(sign, ParseDecimal(stripped))
        Parens(stripped) ==
            IF StartsWith(stripped, "(") /\ EndsWith(stripped, ")")
            THEN Minus(-1, SubSeq(stripped, 2, Len(stripped) - 1))
            ELSE Minus(1, stripped)
        Of(amount_token) ==
            EndsWith(amount_token, "CR") \/ Parens(Strip(amount_token, Whitespace))
    IN  Of(Replace(Replace(last_token, "$", ""), ",", ""))

\* the line passes every `continue` of the loop body of
\* parse_last_purchase_date below the markers
IsPurchase(tokens) ==
    /\ Len(tokens) >= 3
    /\ Len(tokens[1]) \in {4, 5} /\ MonthDayMatch(tokens[1]) # <<>>
    /\ Len(MonthDayMatch(tokens[1])[2]) = Len(tokens[1]) - 3
    /\ \A bad \in EXCLUDED_WORDS :
          ~Contains(Upper(Join(SubSeq(tokens, 3, Len(tokens) - 1), " ")), bad)
    /\ ~SkippedAmount(tokens[Len(tokens)])

\* a date put before the dates of the rest of the loop; an exception of
\* either ends the loop
Prepend(date, later) ==
    IF date.kind = "raise" THEN date
    ELSE IF later.kind = "raise" THEN later
    ELSE List(<<date>> \o later.items)

\* a loop that only leaves the listing at an end marker and enters the next
\* listing at a later start marker
RECURSIVE candidate_dates_resume(_, _, _, _)
candidate_dates_resume(lines, start, end, in_transactions) ==
    IF lines = <<>> THEN List(<<>>)
    ELSE IF StartsWith(Head(lines), "New Transactions for")
    THEN candidate_dates_resume(Tail(lines), start, end, TRUE)
    ELSE IF in_transactions /\ (\/ StartsWith(Head(lines), "Total of New Transactions")
                                \/ StartsWith(Head(lines), "Other Account Transactions"))
    THEN candidate_dates_resume(Tail(lines), start, end, FALSE)
    ELSE IF ~in_transactions \/ ~IsPurchase(Words(Head(lines)))
    THEN candidate_dates_resume(Tail(lines), start, end, in_transactions)
    ELSE Prepend(resolve_statement_date(Words(Head(lines))[1], start, end),
                 candidate_dates_resume(Tail(lines), start, end, in_transactions))

\* the loop of parse_last_purchase_date: candidate_dates, or the exception
\* resolve_statement_date raises
RECURSIVE candidate_dates(_, _, _, _)
candidate_dates(lines, start, end, in_transactions) ==
    IF lines = <<>> THEN List(<<>>)
    ELSE IF StartsWith(Head(lines), "New Transactions for")
    THEN candidate_dates(Tail(lines), start, end, TRUE)
    ELSE IF in_transactions /\ (\/ StartsWith(Head(lines), "Total of New Transactions")
                                \/ StartsWith(Head(lines), "Other Account Transactions"))
    THEN List(<<>>)
    ELSE IF ~in_transactions \/ ~IsPurchase(Words(Head(lines)))
    THEN candidate_dates(Tail(lines), start, end, in_transactions)
    ELSE Prepend(resolve_statement_date(Words(Head(lines))[1], start, end),
                 candidate_dates(Tail(lines), start, end, in_transactions))

\* max(dates), OntarioClaimsError when there are none
LastOf(dates) ==
    IF dates.kind = "raise" THEN dates
    ELSE IF dates.items = <<>> THEN Raised("OntarioClaimsError")
    ELSE MaxDate(dates.items)

\* ontario_claims.parse_last_purchase_date
parse_last_purchase_date(text) ==
    LET After(header) ==
            IF header.kind = "raise" THEN header
            ELSE LastOf(candidate_dates(Lines(text), header.start_date, header.end_date, FALSE))
    IN  After(StatementHeader(text, FALSE))

\* the loop of parse_last_payment_date
RECURSIVE payment_dates(_, _, _)
payment_dates(lines, start, end) ==
    IF lines = <<>> THEN List(<<>>)
    ELSE IF ~Contains(Upper(Head(lines)), "PAYMENT RECEIVED - THANK YOU")
    THEN payment_dates(Tail(lines), start, end)
    ELSE Prepend(resolve_statement_date(Words(Head(lines))[1], start, end),
                 payment_dates(Tail(lines), start, end))

\* ontario_claims.parse_last_payment_date
parse_last_payment_date(text) ==
    LET After(header) ==
            IF header.kind = "raise" THEN header
            ELSE LastOf(payment_dates(Lines(text), header.start_date, header.end_date))
    IN  After(StatementHeader(text, FALSE))

COMPANY_KEYWORDS ==
    {" INC", " LTD", " LLC", " CO ", " COMPANY", " CORP", " CORP.", " BANK", " LIMITED",
     " PLC", " LLP"}

\* ontario_claims.split_name_for_claim: <<last, first, middle>>
split_name_for_claim(full_name) ==
    LET Of(parts) ==
            IF parts = <<>> THEN <<"", "", "">>
            ELSE IF Len(parts) = 1 THEN <<parts[1], "", "">>
            ELSE <<parts[Len(parts)], parts[1], Join(SubSeq(parts, 2, Len(parts) - 1), " ")>>
    IN  IF \E keyword \in COMPANY_KEYWORDS : Contains(" " \o Upper(full_name) \o " ", keyword)
        THEN <<full_name, "", "">>
        ELSE Of(Words(full_name))

\* ontario_claims.build_alias
build_alias(first, middle, last) ==
    LET Part(stripped) == IF Len(stripped) = 1 THEN stripped \o "." ELSE stripped
        Parts(tokens) == [i \in 1..Len(tokens) |-> Part(Replace(tokens[i], ".", ""))]
        Unless(alias, full) == IF Upper(alias) = Upper(full) THEN "" ELSE Upper(alias)
    IN  IF middle = "" THEN ""
        ELSE Unless(normalize_whitespace(first \o " " \o Join(Parts(Words(middle)), " ")
                                        \o " " \o last),
                   normalize_whitespace(first \o " " \o middle \o " " \o last))

TELEPHONE_HEADER == "On File Last Inq Current Residence Telephone Prev phone"

\* ontario_claims.extract_credit_report_data; lines[idx + 1] raises
\* IndexError when the telephone header is the last line
extract_credit_report_data(text) ==
    LET Phone(current_phone, prev_phone) ==
            IF current_phone # "" THEN current_phone ELSE prev_phone
        Row(data_tokens, full_name, birth) ==
            IF Len(data_tokens) < 4 THEN Raised("OntarioClaimsError")
            ELSE [kind |-> "credit", full_name |-> full_name, birth |-> birth,
                  phone |-> Phone(format_phone(data_tokens[3]), format_phone(data_tokens[4]))]
        Telephone(lines, full_name, birth) ==
            IF \A i \in 1..Len(lines) : lines[i] # TELEPHONE_HEADER
            THEN Raised("OntarioClaimsError")
            ELSE IF Min({i \in 1..Len(lines) : lines[i] = TELEPHONE_HEADER}) = Len(lines)
            THEN Raised("IndexError")
            ELSE Row(Words(lines[Min({i \in 1..Len(lines) : lines[i] = TELEPHONE_HEADER}) + 1]),
                     full_name, birth)
        Given(name_tokens) ==
            Join([i \in 1..(Len(name_tokens) - 1) |-> Replace(name_tokens[i + 1], "/", " ")], " ")
        Subject(lines, subject_tokens) ==
            IF Len(subject_tokens) < 2 THEN Raised("OntarioClaimsError")
            ELSE Telephone(lines,
                           normalize_whitespace(
                               Given(SubSeq(subject_tokens, 1, Len(subject_tokens) - 1))
                               \o " " \o subject_tokens[1]),
                           subject_tokens[Len(subject_tokens)])
        First(lines, subject_lines) ==
            IF subject_lines = <<>> THEN Raised("OntarioClaimsError")
            ELSE Subject(lines, Tail(Words(subject_lines[1])))
        IsSubject(line) == StartsWith(line, "Subject ")
        Of(lines) == First(lines, SelectSeq(lines, IsSubject))
    IN  Of(Lines(text))

\* ontario_claims.build_claim_mapping: the tokens of the name and the phone
\* (the others come from the statement record and the prepared date)
build_claim_mapping(phone, name_parts, alias) ==
    [t \in {"LAST NAME INSERT", "FIRST NAME INSERT", "AKA INSERT", "PHONENOINSERT"} |->
        IF t = "LAST NAME INSERT" THEN name_parts[1]
        ELSE IF t = "FIRST NAME INSERT" THEN name_parts[2]
        ELSE IF t = "AKA INSERT" THEN alias
        ELSE phone]

\* ontario_claims.generate_claim_documents with both templates in place: the
\* four parsers in turn, none of them in a try block, then the mappings
generate_claim_documents(mrs, mrc, mrp, cbr) ==
    LET Mapped(mrs_data, last_charge, last_payment, credit_data, name_parts) ==
            [kind |-> "documents", full_name |-> mrs_data.full_name,
             last_charge |-> last_charge, last_payment |-> last_payment,
             claim_mapping |->
                 build_claim_mapping(credit_data.phone, name_parts,
                                     build_alias(name_parts[2], name_parts[3], name_parts[1]))]
        Credit(mrs_data, last_charge, last_payment, credit_data) ==
            IF credit_data.kind = "raise" THEN credit_data
            ELSE Mapped(mrs_data, last_charge, last_payment, credit_data,
                        split_name_for_claim(credit_data.full_name))
        Payment(mrs_data, last_charge, last_payment) ==
            IF last_payment.kind = "raise" THEN last_payment
            ELSE Credit(mrs_data, last_charge, last_payment, extract_credit_report_data(cbr))
        Charge(mrs_data, last_charge) ==
            IF last_charge.kind = "raise" THEN last_charge
            ELSE Payment(mrs_data, last_charge, parse_last_payment_date(mrp))
        Statement(mrs_data) ==
            IF mrs_data.kind = "raise" THEN mrs_data
            ELSE Charge(mrs_data, parse_last_purchase_date(mrc))
    IN  Statement(parse_mrs_statement(mrs))

\* the account header of a statement: in order, the period Dec 07, 2023 to
\* Jan 06, 2024 on one line; no header phrase; the card number wrapped onto
\* the next line; two blanks inside the name; three dates; one date; a day
\* the month does not have; a month that is none; no digits of the card
HeaderBlocks ==
    {HEADER_PHRASE \o "ANN LEE XXXX-XXXXXX-51009 Dec07, 2023 Jan06, 2024",
     "ANN LEE XXXX-XXXXXX-51009 Dec07, 2023 Jan06, 2024",
     HEADER_PHRASE \o "ANN LEE\nXXXX-XXXXXX-51009 Dec07, 2023 Jan06, 2024",
     HEADER_PHRASE \o "ANN  LEE XXXX-XXXXXX-51009 Dec07, 2023 Jan06, 2024",
     HEADER_PHRASE \o "ANN LEE XXXX-XXXXXX-51009 Dec07, 2023 Jan06, 2024 Jan31, 2024",
     HEADER_PHRASE \o "ANN LEE XXXX-XXXXXX-51009 Jan06, 2024",
     HEADER_PHRASE \o "ANN LEE XXXX-XXXXXX-51009 Dec07, 2023 Feb30, 2024",
     HEADER_PHRASE \o "ANN LEE XXXX-XXXXXX-51009 Abc07, 2023 Jan06, 2024",
     HEADER_PHRASE \o "ANN LEE XXXX Dec07, 2023 Jan06, 2024"}

GoodHeader == HEADER_PHRASE \o "ANN LEE XXXX-XXXXXX-51009 Dec07, 2023 Jan06, 2024"

\* the rest of an MRS statement: complete; without the mailing block;
\* without the fees of the account summary
MrsTails ==
    {<<"ANN LEE", "12 MAIN ST", "OTTAWA ON K1A 0B1", "Previous Balance $1,000.00",
       "Less Payments $50.00", "Plus Interest $20.00", "Plus Fees $0.00",
       "Equals New Balance $970.00", "Purchases", "19.99% 21.99%">>,
     <<"12 MAIN ST", "OTTAWA ON K1A 0B1", "Previous Balance $1,000.00",
       "Less Payments $50.00", "Plus Interest $20.00", "Plus Fees $0.00",
       "Equals New Balance $970.00", "Purchases", "19.99% 21.99%">>,
     <<"ANN LEE", "12 MAIN ST", "OTTAWA ON K1A 0B1", "Previous Balance $1,000.00",
       "Less Payments $50.00", "Plus Interest $20.00",
       "Equals New Balance $970.00", "Purchases", "19.99% 21.99%">>}

GoodMrsTail == CHOOSE tail \in MrsTails : Len(tail) = 10

\* the text of a statement: the header, then the lines
TextOf(header_block, lines) == Join(<<header_block>> \o lines, "\n")

\* the lines of a transaction listing: two purchases, a description with
\* an excluded word, a credit, a negative amount, a day the month does not
\* have, and a line of three tokens
TransactionLines ==
    {"Dec12 Dec13 TOY SHOP 7.00",
     "Jan03 Jan04 BOOK STORE $1,020.00",
     "Jan05 Jan05 COFFEE BAR 3.50",
     "Jan05 Jan05 STORE REFUND 20.00CR",
     "Jan05 Jan06 GAS BAR (15.00)",
     "Feb30 Feb30 GROCER 5.00",
     "Jan04 PAYMENT 5.00"}

MaxBodyLines == 2

RECURSIVE SeqsUpTo(_, _)
SeqsUpTo(S, n) ==
    IF n = 0 THEN {<<>>}
    ELSE SeqsUpTo(S, n - 1) \cup {<<x>> \o s : x \in S, s \in {t \in SeqsUpTo(S, n - 1) : Len(t) = n - 1}}

START_MARKER == "New Transactions for"
END_MARKERS == {"Total of New Transactions", "Other Account Transactions"}

\* the transaction listings of an MRC statement: a line before the start
\* marker, the start marker, the transactions, an end marker, and a second
\* listing after it
PurchaseBodies ==
    {<<"Jan06 Jan06 EARLY SHOP 9.99">> \o start \o inside \o ending \o after :
        start \in {<<>>, <<START_MARKER \o " ANN LEE">>},
        inside \in SeqsUpTo(TransactionLines, MaxBodyLines),
        ending \in {<<>>} \cup {<<marker \o " 100.00">> : marker \in END_MARKERS},
        after \in {<<>>, <<START_MARKER \o " BOB ROY", "Jan06 Jan06 LATE SHOP 8.00">>}}

GoodPurchases == <<START_MARKER \o " ANN LEE", "Dec12 Dec13 TOY SHOP 7.00">>

PaymentBodies ==
    {<<>>,
     <<"Jan05 Jan05 PAYMENT RECEIVED - THANK YOU -50.00">>,
     <<"Jan05 Jan05 Payment Received - Thank You -5.00",
       "Dec15 Dec15 PAYMENT RECEIVED - THANK YOU -50.00">>,
     <<"PAYMENT RECEIVED - THANK YOU">>,
     <<"Feb30 Feb30 PAYMENT RECEIVED - THANK YOU -1.00">>}

GoodPayments == <<"Jan05 Jan05 PAYMENT RECEIVED - THANK YOU -50.00">>

\* the Subject lines of a credit report: surname, given names, birth
SubjectLines ==
    {"Subject LEE ANN 1990-01-01", "Subject LEE ANN MARIE J. 1990-01-01",
     "Subject ROY BOB Q 1977-05-05", "Subject BANKS JOHN 1980-02-02",
     "Subject SMITH INCE 1980-02-02", "Subject LEE ANN/ANNIE 1990-01-01",
     "Subject LEE 1990-01-01", "Subject 1990-01-01", "Name LEE ANN"}

TelephoneRows ==
    {<<TELEPHONE_HEADER, "2020 2024 6135550100 6135550199">>,
     <<TELEPHONE_HEADER, "2020 2024 6135550100">>,
     <<TELEPHONE_HEADER>>,
     <<>>}

CbrTexts ==
    {Join(<<"Credit Report", subject>> \o telephone, "\n") :
        subject \in SubjectLines, telephone \in TelephoneRows}

PARSERS ==
    {"parse_mrs_statement", "parse_last_purchase_date", "parse_last_payment_date",
     "extract_credit_report_data", "generate_claim_documents"}

ParseCalls ==
    {[callee |-> "parse_mrs_statement", args |-> <<Str(TextOf(h, tail))>>] :
        h \in HeaderBlocks, tail \in MrsTails}
    \cup {[callee |-> "parse_last_purchase_date", args |-> <<Str(TextOf(h, GoodPurchases))>>] :
            h \in HeaderBlocks}
    \cup {[callee |-> "parse_last_purchase_date", args |-> <<Str(TextOf(GoodHeader, body))>>] :
            body \in PurchaseBodies}
    \cup {[callee |-> "parse_last_payment_date", args |-> <<Str(TextOf(h, body))>>] :
            h \in HeaderBlocks, body \in PaymentBodies}
    \cup {[callee |-> "extract_credit_report_data", args |-> <<Str(t)>>] : t \in CbrTexts}
    \cup {[callee |-> "generate_claim_documents",
           args |-> <<Str(TextOf(h, GoodMrsTail)), Str(TextOf(GoodHeader, purchases)),
                      Str(TextOf(GoodHeader, payments)), Str(t)>>] :
            h \in {GoodHeader, HEADER_PHRASE \o "ANN LEE XXXX-XXXXXX-51009 Jan06, 2024"},
            purchases \in {GoodPurchases, GoodPurchases \o <<"Feb30 Feb30 GROCER 5.00">>},
            payments \in {GoodPayments, <<>>},
            t \in {x \in CbrTexts : Contains(x, "6135550199") \/ Contains(x, "Subject LEE ANN 1")}}

InitParse ==
    /\ IdleRuns
    /\ IdleGenerate
    /\ IdleMerge
    /\ IdleAgg
    /\ IdleApp
    /\ IdleFormat
    /\ IdleDocx
    /\ IdlePdf
    /\ \E call \in ParseCalls : callee = call.callee /\ args = call.args
    /\ ret = None
    /\ hpc = "call"

ParseMrsStatement ==
    /\ hpc = "call" /\ callee = "parse_mrs_statement"
    /\ Return(parse_mrs_statement(args[1].s))

ParseLastPurchaseDate ==
    /\ hpc = "call" /\ callee = "parse_last_purchase_date"
    /\ Return(parse_last_purchase_date(args[1].s))

ParseLastPaymentDate ==
    /\ hpc = "call" /\ callee = "parse_last_payment_date"
    /\ Return(parse_last_payment_date(args[1].s))

ExtractCreditReportData ==
    /\ hpc = "call" /\ callee = "extract_credit_report_data"
    /\ Return(extract_credit_report_data(args[1].s))

GenerateClaimDocuments ==
    /\ hpc = "call" /\ callee = "generate_claim_documents"
    /\ Return(generate_claim_documents(args[1].s, args[2].s, args[3].s, args[4].s))

NextParse ==
    \/ ParseMrsStatement
    \/ ParseLastPurchaseDate
    \/ ParseLastPaymentDate
    \/ ExtractCreditReportData
    \/ GenerateClaimDocuments

SpecParse == InitParse /\ [][NextParse]_vars

-----------------------------------------------------------------------------
(* C21: the statement period and the failures of the Ontario parsers *)

\* the line of the text that follows the header phrase, "" when the phrase
\* is not in the text
AccountLine(text) ==
    LET Next1(raw, at) == IF at = {} \/ Min(at) = Len(raw) THEN "" ELSE raw[Min(at) + 1]
        Of(raw) == Next1(raw, {i \in 1..Len(raw) : raw[i] \o "\n" = HEADER_PHRASE})
    IN  Of(Split(text, "\n"))

IsStatementParser ==
    callee \in {"parse_mrs_statement", "parse_last_purchase_date", "parse_last_payment_date"}

\* C21: a call of parse_mrs_statement that returns took the first two date
\* tokens of the account header line as start and end of the period, and every
\* call of a statement parser or of generate_claim_documents that fails
\* raises OntarioClaimsError.
C21_HeaderFailuresAreOntarioClaimsError_AsStated ==
    /\ (callee = "parse_mrs_statement" /\ hpc = "returned")
          => /\ Len(FindDateTokens(AccountLine(args[1].s), 1)) >= 2
             /\ DateKey(ret.start_date)
                   = DateKey(parse_compact_date(FindDateTokens(AccountLine(args[1].s), 1)[1]))
             /\ DateKey(ret.end_date)
                   = DateKey(parse_compact_date(FindDateTokens(AccountLine(args[1].s), 1)[2]))
    /\ ((IsStatementParser \/ callee = "generate_claim_documents") /\ hpc = "raised")
          => ret.type = "OntarioClaimsError"

-----------------------------------------------------------------------------
(* C22: the runs of a paragraph that held a placeholder *)

\* the places whose paragraphs the filler visits
VisitedPlaces == IF filler = "ontario_claims" THEN PLACES ELSE {"body", "cell"}

\* C22: after filling, a visited paragraph whose joined run text held a
\* placeholder of the mapping has as many runs as in the template, the first
\* holding the text with every placeholder replaced by its value and every
\* other run empty.
C22_FirstRunHoldsReplacedText_AsStated ==
    dpc = "returned" =>
        \A place \in VisitedPlaces :
            TokensIn(ParagraphAt(template, place)) # {} =>
                ParagraphAt(docx, place)
                    = FirstRunHolds(ParagraphAt(template, place),
                                    ReplaceAll(JoinRuns(ParagraphAt(template, place)),
                                               placeholders))

-----------------------------------------------------------------------------
(* C23: the transactions parse_last_purchase_date takes its date from *)

\* the indexes of the lines after the first start marker and before the
\* first end marker that follows it
Considered(lines) ==
    LET Upto(first, ends) ==
            {i \in (first + 1)..Len(lines) : ends = {} \/ i < Min(ends)}
        From(first) ==
            Upto(first, {i \in (first + 1)..Len(lines) :
                            \E marker \in END_MARKERS : StartsWith(lines[i], marker)})
        Of(starts) == IF starts = {} THEN {} ELSE From(Min(starts))
    IN  Of({i \in 1..Len(lines) : StartsWith(lines[i], START_MARKER)})

\* three letters and one or two digits
DateShaped(token) ==
    /\ Len(token) \in {4, 5}
    /\ \A i \in 1..3 : IsAlpha(Char(token, i))
    /\ \A i \in 4..Len(token) : IsDigit(Char(token, i))

\* the amount, read without "$" and ",", is a decimal above zero
PositiveAmount(token) ==
    LET Of(dec) == dec.ok /\ ~dec.neg /\ dec.units > 0
    IN  Of(ParseDecimal(Replace(Replace(token, "$", ""), ",", "")))

\* a transaction line that is not skipped for its description or amount
Remaining(line) ==
    LET Of(tokens) ==
            /\ Len(tokens) >= 3
            /\ DateShaped(tokens[1])
            /\ \A bad \in EXCLUDED_WORDS :
                  ~Contains(Upper(Join(SubSeq(tokens, 3, Len(tokens) - 1), " ")), bad)
            /\ PositiveAmount(tokens[Len(tokens)])
    IN  Of(Words(line))

\* the resolved dates of the remaining lines among the considered ones
RemainingDates(lines, start, end) ==
    {resolve_statement_date(Words(lines[i])[1], start, end) :
        i \in {j \in Considered(lines) : Remaining(lines[j])}}

\* the result the dates of the remaining lines call for
ExpectedLastPurchase(dates) ==
    IF dates = {} THEN Raised("OntarioClaimsError")
    ELSE IF \E d \in dates : d.kind = "raise" THEN Raised("ValueError")
    ELSE CHOOSE d \in dates : \A o \in dates : DateKey(o) <= DateKey(d)

\* C23: when the header of the statement is read, parse_last_purchase_date
\* returns the latest resolved date among the lines that lie after the first
\* start marker and before the first end marker following it and that are not
\* skipped for an excluded word in the description or an amount that is not
\* above zero; it raises OntarioClaimsError when no such line remains, and
\* ValueError when the date of one of them does not exist.
C23_LastPurchaseIsMaxOfFirstListing ==
    (callee = "parse_last_purchase_date" /\ hpc \in {"returned", "raised"}
     /\ StatementHeader(args[1].s, FALSE).kind = "period")
        => ret = ExpectedLastPurchase(
                    RemainingDates(Lines(args[1].s),
                                   StatementHeader(args[1].s, FALSE).start_date,
                                   StatementHeader(args[1].s, FALSE).end_date))

\* a listing closed by an end marker and followed by a second listing with a
\* later purchase, the first holding an earlier purchase and a later line
\* skipped for the word FEE: the date of the earlier purchase is returned
C23_Witness ==
    /\ callee = "parse_last_purchase_date" /\ hpc = "returned"
    /\ args[1].s = TextOf(GoodHeader,
                          <<"Jan06 Jan06 EARLY SHOP 9.99", START_MARKER \o " ANN LEE",
                            "Dec12 Dec13 TOY SHOP 7.00", "Jan05 Jan05 COFFEE BAR 3.50",
                            "Total of New Transactions 100.00",
                            START_MARKER \o " BOB ROY", "Jan06 Jan06 LATE SHOP 8.00">>)
    /\ ret = DateValue(2023, 12, 12)

-----------------------------------------------------------------------------
(* The name and address block at the bottom of a statement:                *)
(* bc_claims.extract_mrs_data and                                          *)
(* demand_letter.extract_name_and_address_from_bottom.  The texts are      *)
(* ASCII, which normalize_unicode leaves as it is.                         *)

\* text.splitlines() for "\n" as the only line break
splitlines(text) ==
    IF text = "" THEN <<>>
    ELSE IF EndsWith(text, "\n") THEN Split(SubSeq(text, 1, Len(text) - 1), "\n")
    ELSE Split(text, "\n")

\* re.search(r"\d", s)
HasDigit(s) == \E i \in 1..Len(s) : IsDigit(Char(s, i))

\* re.search(r"\d{3,}", s)
HasThreeDigits(s) == \E i \in 1..(Len(s) - 2) : \A k \in 0..2 : IsDigit(Char(s, i + k))

\* re.search(r"[A-Z]\d[A-Z]\s?\d[A-Z]\d", s)
HasPostal(s) ==
    LET Code(j) ==
            /\ j + 2 <= Len(s)
            /\ IsDigit(Char(s, j)) /\ Char(s, j + 1) \in UpperSet /\ IsDigit(Char(s, j + 2))
    IN  \E i \in 1..(Len(s) - 5) :
            /\ Char(s, i) \in UpperSet /\ IsDigit(Char(s, i + 1)) /\ Char(s, i + 2) \in UpperSet
            /\ \/ Code(i + 3)
               \/ Char(s, i + 3) \in Whitespace /\ Code(i + 4)

SUBUNIT_PREFIXES == {"APT", "UNIT", "SUITE"}

\* re.match(r"^(APT|UNIT|SUITE)\b", s)
IsSubunit(s) ==
    \E prefix \in SUBUNIT_PREFIXES :
        /\ StartsWith(s, prefix)
        /\ \/ Len(s) = Len(prefix)
           \/ LET Boundary(c) == ~IsAlpha(c) /\ ~IsDigit(c) /\ c # "_"
              IN  Boundary(Char(s, Len(prefix) + 1))

\* the body of the loop of extract_mrs_data for the window whose first line
\* is lines[i]: <<name, address>>, <<>> when the loop goes on
MrsWindow(lines, i) ==
    LET Test(actual_name, address, addr2) ==
            IF Len(Words(actual_name)) >= 2 /\ HasThreeDigits(address)
               /\ HasPostal(Upper(addr2))
            THEN <<actual_name, address>>
            ELSE <<>>
        Of(possible_name, addr1, addr2) ==
            IF IsSubunit(Upper(possible_name))
            THEN IF i - 1 >= 1
                 THEN Test(Strip(lines[i - 1], Whitespace),
                           possible_name \o ", " \o addr1 \o ", " \o addr2, addr2)
                 ELSE <<>>
            ELSE Test(possible_name, addr1 \o ", " \o addr2, addr2)
    IN  Of(Strip(lines[i], Whitespace), Strip(lines[i + 1], Whitespace),
           Strip(lines[i + 2], Whitespace))

\* the loop of extract_mrs_data from the window at lines[i] upward
RECURSIVE MrsBlock(_, _)
MrsBlock(lines, i) ==
    LET Else(found) == IF found # <<>> THEN found ELSE MrsBlock(lines, i - 1)
    IN  IF i < 1 THEN <<>> ELSE Else(MrsWindow(lines, i))

\* the name and address entries of the result of bc_claims.extract_mrs_data
mrs_name_and_address(text) ==
    LET Entries(found) ==
            IF found = <<>> THEN EmptyDict
            ELSE [name |-> Str(found[1]), address |-> Str(found[2])]
        Of(lines) == Dict(Entries(MrsBlock(lines, Len(lines) - 2)))
    IN  Of(splitlines(text))

\* the body of the first loop of extract_name_and_address_from_bottom
BottomWindow(lines, i) ==
    LET NotEmpty(part) == part # ""
        Of(name_line, addr1, addr2) ==
            IF Len(Words(name_line)) >= 2 /\ HasDigit(addr1) /\ HasPostal(Upper(addr2))
            THEN <<name_line, Join(SelectSeq(<<addr1, addr2>>, NotEmpty), ", ")>>
            ELSE <<>>
    IN  Of(Strip(lines[i], Whitespace), Strip(lines[i + 1], Whitespace),
           Strip(lines[i + 2], Whitespace))

RECURSIVE BottomBlock(_, _)
BottomBlock(lines, i) ==
    LET Else(found) == IF found # <<>> THEN found ELSE BottomBlock(lines, i - 1)
    IN  IF i < 1 THEN <<>> ELSE Else(BottomWindow(lines, i))

\* re.match(r"^[A-Z][a-z]+ [A-Z][a-z]+", line) or
\* re.match(r"^Mr\s+[A-Z][a-z]+", line, re.IGNORECASE)
LooksLikeName(line) ==
    \/ /\ Len(line) >= 5 /\ Char(line, 1) \in UpperSet
       /\ \E k \in 2..(Len(line) - 3) :
             /\ \A j \in 2..k : Char(line, j) \in LowerSet
             /\ Char(line, k + 1) = " "
             /\ Char(line, k + 2) \in UpperSet /\ Char(line, k + 3) \in LowerSet
    \/ /\ Len(line) >= 5 /\ Lower(SubSeq(line, 1, 2)) = "mr"
       /\ \E k \in 3..(Len(line) - 2) :
             /\ \A j \in 3..k : Char(line, j) \in Whitespace
             /\ IsAlpha(Char(line, k + 1)) /\ IsAlpha(Char(line, k + 2))

\* the second loop of extract_name_and_address_from_bottom: the first of
\* the last five lines that looks like a name
NameAmongLastFive(lines) ==
    LET From(lo) == {i \in lo..Len(lines) : LooksLikeName(lines[i])}
        Of(hits) == IF hits = {} THEN <<"", "">> ELSE <<lines[Min(hits)], "Address not found">>
    IN  Of(From(IF Len(lines) - 5 > 0 THEN Len(lines) - 4 ELSE 1))

\* demand_letter.extract_name_and_address_from_bottom on the text of the
\* first page: the tuple (name, address)
extract_name_and_address_from_bottom(text) ==
    LET Else(lines, found) == IF found # <<>> THEN found ELSE NameAmongLastFive(lines)
        Of(lines) == List(Else(lines, BottomBlock(lines, Len(lines) - 2)))
    IN  Of([i \in 1..Len(splitlines(text)) |-> Strip(splitlines(text)[i], Whitespace)])

\* the lines of the foot of a statement: a name, a subunit, a street with a
\* number of three digits and one of two, the city with the postal code, and
\* a name in mixed case
BlockLineChoices ==
    {"ANN LEE", "APT 4", "123 MAIN ST", "12 MAIN ST", "VANCOUVER BC V6B 1A1", "Mr Lee"}

MaxBlockLines == 4

BlockTexts == {Join(lines, "\n") : lines \in SeqsUpTo(BlockLineChoices, MaxBlockLines)}

LOCATORS == {"extract_mrs_data", "extract_name_and_address_from_bottom"}

InitBlock ==
    /\ IdleRuns
    /\ IdleGenerate
    /\ IdleMerge
    /\ IdleAgg
    /\ IdleApp
    /\ IdleFormat
    /\ IdleDocx
    /\ IdlePdf
    /\ callee \in LOCATORS
    /\ \E text \in BlockTexts : args = <<Str(text)>>
    /\ ret = None
    /\ hpc = "call"

ExtractMrsData ==
    /\ hpc = "call" /\ callee = "extract_mrs_data"
    /\ Return(mrs_name_and_address(args[1].s))

ExtractNameAndAddressFromBottom ==
    /\ hpc = "call" /\ callee = "extract_name_and_address_from_bottom"
    /\ Return(extract_name_and_address_from_bottom(args[1].s))

NextBlock ==
    \/ ExtractMrsData
    \/ ExtractNameAndAddressFromBottom

SpecBlock == InitBlock /\ [][NextBlock]_vars

-----------------------------------------------------------------------------
(* C24: the window the locators return *)

\* the name and address a locator returned, <<>> when it found no block
FoundBlock ==
    IF callee = "extract_mrs_data"
    THEN IF "name" \in DOMAIN ret.d THEN <<ret.d.name.s, ret.d.address.s>> ELSE <<>>
    ELSE IF ret.items[2] \in {"", "Address not found"} THEN <<>> ELSE ret.items

\* the first lines of the windows that qualify: two tokens, then a line with
\* a digit, then a line with a postal code
QualifyingWindows(lines) ==
    {i \in 1..(Len(lines) - 2) :
        /\ Len(Words(lines[i])) >= 2
        /\ HasDigit(lines[i + 1])
        /\ HasPostal(Upper(lines[i + 2]))}

\* the block of the window at lines[i]: the name from the line above and the
\* subunit line in the address when the window starts with a subunit
BlockOfWindow(lines, i) ==
    IF IsSubunit(Upper(lines[i]))
    THEN <<lines[i - 1], lines[i] \o ", " \o lines[i + 1] \o ", " \o lines[i + 2]>>
    ELSE <<lines[i], lines[i + 1] \o ", " \o lines[i + 2]>>

Max(S) == CHOOSE i \in S : \A j \in S : j <= i

\* C24: a locator returns the block of the bottom-most qualifying window,
\* with the name taken from the line above a subunit line and the subunit
\* line put into the address, and finds no block when no window qualifies.
C24_BottomMostQualifyingWindow_AsStated ==
    (callee \in LOCATORS /\ hpc = "returned") =>
        LET Expected(lines, windows) ==
                IF windows = {} THEN FoundBlock = <<>>
                ELSE (IsSubunit(Upper(lines[Max(windows)])) => Max(windows) > 1)
                        => FoundBlock = BlockOfWindow(lines, Max(windows))
            Of(lines) == Expected(lines, QualifyingWindows(lines))
        IN  Of(splitlines(args[1].s))

-----------------------------------------------------------------------------
(* C25: the two writes of put_amount *)

AMOUNT_KEYS ==
    {FIELD_KEYS.amount_a, FIELD_KEYS.amount_b, FIELD_KEYS.amount_c, FIELD_KEYS.amount_e}

\* the value fill_default_order passes to put_amount for the field
AmountPassed(field_key) ==
    LET interest_amount == read_notice_interest_and_registry(pinputs.notice).interest_amount
    IN  CASE field_key = FIELD_KEYS.amount_a ->
                 compute_principal_amount(pinputs.values, interest_amount)
          [] field_key = FIELD_KEYS.amount_b -> format_currency(DEFAULT_EXPENSES)
          [] field_key = FIELD_KEYS.amount_c -> interest_amount
          [] field_key = FIELD_KEYS.amount_e -> format_currency(DEFAULT_APPLICATION_FEE)

\* the calls of update_page_form_field_values made for the field, in order
WritesTo(field_key) ==
    LET For(update) == DOMAIN update.values = {field_key}
    IN  SelectSeq(writer.updates, For)

\* one call for every annotated page of the form, in page order
OnAnnotatedPages(field_key, value) ==
    LET Annotated(p) == form[p].annots
        Calls(pages) ==
            [i \in 1..Len(pages) |->
                [page |-> pages[i], values |-> [k \in {field_key} |-> value]]]
    IN  Calls(SelectSeq([p \in 1..Len(form) |-> p], Annotated))

\* the digits-only form is written after the value
HasFallback(value) == DigitsOnly(value) # "" /\ DigitsOnly(value) # value

\* C25: for every amount field whose value is not empty, fill_default_order
\* has written the value on every annotated page and then, exactly when the
\* digits-only form is not empty and differs from the value, the digits-only
\* form on the same pages; the field ends with the digits-only form in that
\* case and with the value otherwise.
C25_ValueThenDigitsOnly ==
    (ppc = "returned" /\ pfiller = "default_judgment") =>
        \A field_key \in AMOUNT_KEYS :
            LET Check(value) ==
                    /\ WritesTo(field_key)
                          = IF value = "" THEN <<>>
                            ELSE OnAnnotatedPages(field_key, value)
                                 \o (IF HasFallback(value)
                                     THEN OnAnnotatedPages(field_key, DigitsOnly(value))
                                     ELSE <<>>)
                    /\ value # "" =>
                          \A p \in 1..Len(writer.pages) :
                              \A i \in 1..Len(writer.pages[p].fields) :
                                  writer.pages[p].fields[i].T = field_key =>
                                      writer.pages[p].fields[i].V
                                          = IF HasFallback(value) THEN DigitsOnly(value)
                                            ELSE value
            IN  Check(AmountPassed(field_key))

\* a form of two annotated pages filled with the claim amount "$1,000.00",
\* written as it is and then as "1000.00" on both pages, and with the
\* interest "25.50" of the notice, written once on each page
C25_Witness ==
    /\ ppc = "returned" /\ pfiller = "default_judgment"
    /\ Len(form) = 2 /\ form[1].annots /\ form[2].annots
    /\ WritesTo("claim")
          = <<[page |-> 1, values |-> [k \in {"claim"} |-> "$1,000.00"]],
              [page |-> 2, values |-> [k \in {"claim"} |-> "$1,000.00"]],
              [page |-> 1, values |-> [k \in {"claim"} |-> "1000.00"]],
              [page |-> 2, values |-> [k \in {"claim"} |-> "1000.00"]]>>
    /\ WritesTo("interest")
          = <<[page |-> 1, values |-> [k \in {"interest"} |-> "25.50"]],
              [page |-> 2, values |-> [k \in {"interest"} |-> "25.50"]]>>
    /\ \E i \in 1..Len(writer.pages[1].fields) :
          writer.pages[1].fields[i].T = "claim" /\ writer.pages[1].fields[i].V = "1000.00"
    /\ \E i \in 1..Len(writer.pages[1].fields) :
          writer.pages[1].fields[i].T = "interest" /\ writer.pages[1].fields[i].V = "25.50"

-----------------------------------------------------------------------------
(* bc_claims.build_pdf_field_values_from_data: the field values of the     *)
(* Notice of Claim, from the placeholder mapping (a function from          *)
(* placeholders to strings)                                                *)

\* the length of the match of r"([A-Za-z]\d[A-Za-z]\s?\d[A-Za-z]\d)$", 0
\* when the text does not end with a postal code
PostalSuffix(s) ==
    LET Code(t) ==
            /\ IsAlpha(Char(t, 1)) /\ IsDigit(Char(t, 2)) /\ IsAlpha(Char(t, 3))
            /\ IsDigit(Char(t, Len(t) - 2)) /\ IsAlpha(Char(t, Len(t) - 1))
            /\ IsDigit(Char(t, Len(t)))
            /\ Len(t) = 7 => Char(t, 4) \in Whitespace
    IN  IF Len(s) >= 7 /\ Code(SubSeq(s, Len(s) - 6, Len(s))) THEN 7
        ELSE IF Len(s) >= 6 /\ Code(SubSeq(s, Len(s) - 5, Len(s))) THEN 6
        ELSE 0

PROVINCES ==
    {"AB", "BC", "MB", "NB", "NL", "NS", "NT", "NU", "ON", "PE", "QC", "SK", "YT"}

IsWordChar(c) == IsAlpha(c) \/ IsDigit(c) \/ c = "_"

\* the match of r"\b(AB|BC|...|YT)\b" in s, "" when there is none
ProvinceIn(s) ==
    LET At(i) ==
            /\ SubSeq(s, i, i + 1) \in PROVINCES
            /\ i = 1 \/ ~IsWordChar(Char(s, i - 1))
            /\ i + 1 = Len(s) \/ ~IsWordChar(Char(s, i + 2))
        First(hits) == IF hits = {} THEN "" ELSE SubSeq(s, Min(hits), Min(hits) + 1)
    IN  First({i \in 1..(Len(s) - 1) : At(i)})

\* the groups of the match of
\* r"^(.*?),\s*([^,]+?)\s+([A-Za-z]{2})\s+([A-Za-z]\d[A-Za-z]\s?\d[A-Za-z]\d)$"
\* on s, <<>> when it does not match: the street ends at the last comma
\* before the city, the province is the two letters before the postal code
AddressGroups(s) ==
    LET Groups(street, around_city, prov, postal) ==
            IF Len(around_city) >= 2 /\ Char(around_city, Len(around_city)) \in Whitespace
            THEN <<street, around_city, prov, postal>>
            ELSE <<>>
        AtComma(before_prov, commas, prov, postal) ==
            IF commas = {} THEN <<>>
            ELSE Groups(SubSeq(before_prov, 1, Max(commas) - 1),
                        SubSeq(before_prov, Max(commas) + 1, Len(before_prov)),
                        prov, postal)
        WithProv(upto_prov, postal) ==
            IF Len(upto_prov) < 2
               \/ ~IsAlpha(Char(upto_prov, Len(upto_prov)))
               \/ ~IsAlpha(Char(upto_prov, Len(upto_prov) - 1))
            THEN <<>>
            ELSE AtComma(SubSeq(upto_prov, 1, Len(upto_prov) - 2),
                         {i \in 1..(Len(upto_prov) - 2) : Char(upto_prov, i) = ","},
                         SubSeq(upto_prov, Len(upto_prov) - 1, Len(upto_prov)), postal)
        WithPostal(before, postal) ==
            IF before = "" \/ Char(before, Len(before)) \notin Whitespace THEN <<>>
            ELSE WithProv(RStrip(before, Whitespace), postal)
        Of(n) ==
            IF n = 0 THEN <<>>
            ELSE WithPostal(SubSeq(s, 1, Len(s) - n), SubSeq(s, Len(s) - n + 1, Len(s)))
    IN  Of(PostalSuffix(s))

\* bc_claims.parse_bc_address: <<street, city, prov, postal>>
parse_bc_address(addr) ==
    LET City(parts, prov, postal) ==
            IF prov = "" \/ Len(parts) < 2 THEN ""
            ELSE LET Keep(t) == Upper(t) \notin {prov, postal}
                 IN  Join(SelectSeq(Words(parts[2]), Keep), " ")
        Loose(s, street, prov, postal) ==
            <<street, City(Split(s, ","), prov, postal), prov, postal>>
        Unmatched(s, n) ==
            IF n = 0 THEN Loose(s, s, ProvinceIn(s), "")
            ELSE Loose(s,
                       Strip(Replace(s, SubSeq(s, Len(s) - n + 1, Len(s)), ""), {",", " "}),
                       ProvinceIn(s),
                       Upper(Replace(SubSeq(s, Len(s) - n + 1, Len(s)), " ", "")))
        Matched(s, groups) ==
            IF groups = <<>> THEN Unmatched(s, PostalSuffix(s))
            ELSE <<Strip(groups[1], Whitespace), Strip(groups[2], Whitespace),
                   Upper(Strip(groups[3], Whitespace)), Upper(Replace(groups[4], " ", ""))>>
        Of(s) == IF s = "" THEN <<"", "", "", "">> ELSE Matched(s, AddressGroups(s))
    IN  Of(Strip(addr, Whitespace))

\* mapping.get(key): None or the string
Value(mapping, key) == IF key \in DOMAIN mapping THEN Str(mapping[key]) ELSE None

\* mapping.get(key, "").strip()
Stripped(mapping, key) ==
    IF key \in DOMAIN mapping THEN Strip(mapping[key], Whitespace) ELSE ""

\* a total2 that adds the filing fee of 156.00 only
Total2FilingFee(total_debt) ==
    LET Sum(dec, signed) ==
            FormatMoney(signed < 0,
                        HalfEvenCents([dec EXCEPT !.units = IF signed < 0 THEN 0 - signed
                                                           ELSE signed]))
        Of(dec) ==
            IF ~dec.ok THEN total_debt
            ELSE Sum(dec, (IF dec.neg THEN 0 - dec.units ELSE dec.units)
                          + 156 * Pow10(dec.scale))
    IN  Of(ParseDecimal(Replace(Replace(total_debt, "$", ""), ",", "")))

\* total2 of build_pdf_field_values_from_data: base_total + Decimal(236)
\* rendered with ",.2f", total_debt on InvalidOperation
Total2(total_debt) ==
    LET Sum(dec, signed) ==
            FormatMoney(signed < 0,
                        HalfEvenCents([dec EXCEPT !.units = IF signed < 0 THEN 0 - signed
                                                           ELSE signed]))
        Of(dec) ==
            IF ~dec.ok THEN total_debt
            ELSE Sum(dec, (IF dec.neg THEN 0 - dec.units ELSE dec.units)
                          + 236 * Pow10(dec.scale))
    IN  Of(ParseDecimal(Replace(Replace(total_debt, "$", ""), ",", "")))

\* bc_claims.build_pdf_field_values_from_data
build_pdf_field_values_from_data(mapping) ==
    LET simple_name == Stripped(mapping, "SIMPLE NAME INSERT")
        date_range == Stripped(mapping, "DATE RANGE INSERT")
        rate == Stripped(mapping, "INTEREST RATE INSERT")
        account_type == Stripped(mapping, "CREDIT CARD / CHARGE CARD / PERSONAL LOAN INSERT")
        card_type == Stripped(mapping, "CARD TYPE INSERT")
        Part1(text) ==
            IF account_type # "" \/ card_type # ""
            THEN text \o " (" \o account_type \o ": " \o card_type \o ")"
            ELSE text
        Part2(rate_display) ==
            "Contractual interest at the rate of "
            \o (IF rate_display # "" THEN rate_display ELSE "XX.XX%")
            \o " per annum or as may be as amended from time to time from " \o date_range
        Fields(address, total_debt) ==
            [defendant |-> simple_name,
             addressd |-> address[1],
             cityd |-> address[2],
             provd |-> address[3],
             zipd |-> address[4],
             phoned |-> normalize_phone(Get(mapping, "TELINSERT", "")),
             where |-> address[2],
             provo |-> address[3],
             when |-> date_range,
             part1 |-> Part1(Strip("Principle debt owing on last statement from "
                                   \o date_range, Whitespace)),
             amounta |-> to_money_str(Value(mapping, "SMALLDINSERT")),
             part2 |-> Part2(IF EndsWith(rate, "%") \/ rate = "" THEN rate
                             ELSE rate \o "%"),
             amountb |-> to_money_str(Value(mapping, "ACCRUED INTEREST INSERT")),
             part3 |-> "Payments/Credits applied",
             amountc |-> to_money_str(Value(mapping, "PAYMENTS INSERT")),
             total |-> total_debt,
             total2 |-> Total2(total_debt)]
    IN  Fields(parse_bc_address(IF "ADRESS INSERT" \in DOMAIN mapping
                                THEN Strip(mapping["ADRESS INSERT"], Whitespace)
                                ELSE Stripped(mapping, "ADDRESS INSERT")),
               to_money_str(Value(mapping, "DEBT INSERT")))

\* the mapping of a claim without its total: with every placeholder the
\* notice reads, with the address under the other key and no telephone, and
\* with nothing
NoticeMappings ==
    {[k \in {"SIMPLE NAME INSERT", "ADRESS INSERT", "DATE RANGE INSERT",
             "INTEREST RATE INSERT", "SMALLDINSERT", "ACCRUED INTEREST INSERT",
             "PAYMENTS INSERT", "TELINSERT",
             "CREDIT CARD / CHARGE CARD / PERSONAL LOAN INSERT", "CARD TYPE INSERT"} |->
        CASE k = "SIMPLE NAME INSERT" -> " ANN LEE "
          [] k = "ADRESS INSERT" -> "APT 4, 123 MAIN ST, VANCOUVER bc v6b 1a1"
          [] k = "DATE RANGE INSERT" -> "Jan 06, 2024 to Feb 05, 2024"
          [] k = "INTEREST RATE INSERT" -> "21.99"
          [] k = "SMALLDINSERT" -> "1000"
          [] k = "ACCRUED INTEREST INSERT" -> "$14.50"
          [] k = "PAYMENTS INSERT" -> "n/a"
          [] k = "TELINSERT" -> "604-555-1234"
          [] k = "CREDIT CARD / CHARGE CARD / PERSONAL LOAN INSERT" -> "Credit Card"
          [] k = "CARD TYPE INSERT" -> "VISA"],
     [k \in {"SIMPLE NAME INSERT", "ADDRESS INSERT", "INTEREST RATE INSERT"} |->
        CASE k = "SIMPLE NAME INSERT" -> "BOB ROY"
          [] k = "ADDRESS INSERT" -> "12 MAIN ST, SURREY, BC V3T1A1"
          [] k = "INTEREST RATE INSERT" -> "19.5%"],
     [k \in {} |-> ""]}

MaxDebtLen == 3

\* the totals of the mapping: the amounts of AmountTexts of at most
\* MaxDebtLen characters after the prefix, and two formatted ones
DebtTexts ==
    {prefix \o s : prefix \in AmountPrefixes, s \in StringsUpTo(AmountChars, MaxDebtLen)}
    \cup {"$1,250.50", " 1250.5 "}

NoticeData ==
    NoticeMappings
    \cup {Update(mapping, [k \in {"DEBT INSERT"} |-> debt]) :
            mapping \in NoticeMappings, debt \in DebtTexts}

InitNotice ==
    /\ IdleRuns
    /\ IdleGenerate
    /\ IdleMerge
    /\ IdleAgg
    /\ IdleApp
    /\ IdleFormat
    /\ IdleDocx
    /\ IdlePdf
    /\ callee = "build_pdf_field_values_from_data"
    /\ \E mapping \in NoticeData : args = <<Dict(mapping)>>
    /\ ret = None
    /\ hpc = "call"

BuildPdfFieldValuesFromData ==
    /\ hpc = "call" /\ callee = "build_pdf_field_values_from_data"
    /\ Return(Dict(build_pdf_field_values_from_data(args[1].d)))

NextNotice == BuildPdfFieldValuesFromData

SpecNotice == InitNotice /\ [][NextNotice]_vars

-----------------------------------------------------------------------------
(* C26: total2 of the Notice of Claim *)

\* the total debt of the mapping read as a decimal amount, without "$", ","
\* and surrounding blanks; not ok when it is absent or is no decimal
DebtAmount(mapping) ==
    IF "DEBT INSERT" \notin DOMAIN mapping THEN NoDec
    ELSE ParseDecimal(Replace(Replace(Strip(mapping["DEBT INSERT"], Whitespace), "$", ""),
                              ",", ""))

\* the cents of a currency string "$1,234.56" or "$-1,234.56"; not ok for a
\* string that is not of this form
CurrencyCents(s) ==
    LET Signed(dec) ==
            IF ~dec.ok THEN [ok |-> FALSE, cents |-> 0]
            ELSE [ok |-> dec.scale = 2 /\ FormatMoney(dec.neg, dec.units) = s,
                  cents |-> IF dec.neg THEN 0 - dec.units ELSE dec.units]
    IN  IF s = "" \/ Head(s) # "$" THEN [ok |-> FALSE, cents |-> 0]
        ELSE Signed(ParseDecimal(Replace(Tail(s), ",", "")))

\* the amount in cents, rounded half to even as format(dec, ".2f") rounds
RoundedCents(dec) == IF dec.neg THEN 0 - HalfEvenCents(dec) ELSE HalfEvenCents(dec)

\* C26: build_pdf_field_values_from_data returns; when the total debt of the
\* mapping is a decimal amount, total is that amount as a currency string and
\* total2 is a currency string of the total plus 236.00; when the total debt
\* is absent or no decimal, total2 is the total string.
C26_Total2AddsStatutoryFee ==
    (callee = "build_pdf_field_values_from_data" /\ hpc # "call") =>
        /\ hpc = "returned"
        /\ IF DebtAmount(args[1].d).ok
           THEN /\ CurrencyCents(ret.d.total).ok
                /\ CurrencyCents(ret.d.total).cents = RoundedCents(DebtAmount(args[1].d))
                /\ CurrencyCents(ret.d.total2).ok
                /\ CurrencyCents(ret.d.total2).cents
                      = CurrencyCents(ret.d.total).cents + 23600
           ELSE /\ ret.d.total2 = ret.d.total
                /\ ret.d.total = Stripped(args[1].d, "DEBT INSERT")

\* a mapping whose total debt is "$1,250.50": total2 is "$1,486.50"
C26_Witness ==
    /\ callee = "build_pdf_field_values_from_data" /\ hpc = "returned"
    /\ Get(args[1].d, "DEBT INSERT", "") = "$1,250.50"
    /\ ret.d.total = "$1,250.50" /\ ret.d.total2 = "$1,486.50"
    /\ ret.d.defendant = "ANN LEE"

-----------------------------------------------------------------------------
(* C27: the two templates of process_on_claims *)

\* C27: when process_on_claims has passed its template check and goes on to
\* generate, the Schedule A template and the Form 7A template are two
\* different uploaded files.
C27_TemplatesAreDifferentFiles_AsStated ==
    (step_key = "on_claims" /\ apc \in {"run", "done"}) =>
        /\ templates.schedule # NoFile
        /\ templates.claim # NoFile
        /\ templates.schedule # templates.claim

-----------------------------------------------------------------------------
(* C28: the names of the claim mapping *)

\* the tokens after "Subject" of the Subject line of a credit report that
\* has one: the surname, the given names and the birth
SubjectTokens(text) ==
    LET IsSubject(line) == StartsWith(line, "Subject ")
        Of(subject_lines) == Tail(Words(subject_lines[1]))
    IN  Of(SelectSeq(Lines(text), IsSubject))

\* C28: when generate_claim_documents returns for a credit report whose
\* Subject line holds a surname, at least one given name and the birth, the
\* claim mapping has the surname as LAST NAME INSERT and the first given name
\* as FIRST NAME INSERT.
C28_SplitRecoversSurnameAndGiven_AsStated ==
    (callee = "generate_claim_documents" /\ hpc = "returned"
     /\ Len(SubjectTokens(args[4].s)) >= 3)
        => /\ ret.claim_mapping["LAST NAME INSERT"] = SubjectTokens(args[4].s)[1]
           /\ ret.claim_mapping["FIRST NAME INSERT"] = SubjectTokens(args[4].s)[2]

-----------------------------------------------------------------------------
(* C29: the claim amount of the default order *)

\* the claim amount fill_default_order wrote first, "" when it wrote none
ClaimAmount ==
    IF WritesTo(FIELD_KEYS.amount_a) = <<>> THEN ""
    ELSE WritesTo(FIELD_KEYS.amount_a)[1].values[FIELD_KEYS.amount_a]

\* the principal of Schedule A when one was parsed, otherwise the total
\* claimed less the expenses, the application fee and the interest of the
\* notice; "" without a total or when nothing positive is left
ExpectedClaimAmount ==
    LET Cents(dec) == IF dec.ok THEN dec.cents ELSE 0
        Left(rest) == IF rest <= 0 THEN "" ELSE "$" \o FormatCents(rest)
        Derived(total_claimed, interest) ==
            IF ~total_claimed.ok THEN ""
            ELSE Left(total_claimed.cents - 23600 - 2500 - Cents(interest))
        Of(principal) ==
            IF principal.ok THEN "$" \o FormatCents(principal.cents)
            ELSE Derived(to_decimal(pinputs.values.total_claimed),
                         to_decimal(read_notice_interest_and_registry(pinputs.notice)
                                        .interest_amount))
    IN  Of(to_decimal(pinputs.values.principal_last_stmt))

\* C29: the claim amount of a filled default order is blank or a currency
\* amount above zero, and it is the parsed principal or else the total less
\* 236.00, 25.00 and the interest of the notice.
C29_ClaimAmountBlankOrPositive_AsStated ==
    (ppc = "returned" /\ pfiller = "default_judgment") =>
        /\ ClaimAmount = ExpectedClaimAmount
        /\ \/ ClaimAmount = ""
           \/ CurrencyCents(ClaimAmount).ok /\ CurrencyCents(ClaimAmount).cents > 0

-----------------------------------------------------------------------------
(* C30: the year of the last payment and the last charge *)

\* the closing date of the aggregated record, NoDate when it has none
ClosingDate ==
    IF "closing_date" \in DOMAIN data
    THEN StrptimeCompact(Replace(data.closing_date.s, " ", ""))
    ELSE NoDate

\* the dates a mapped value can stand for: those of the closing year and of
\* the year before that strftime("%B %d, %Y") renders as the value
DatesOf(value) ==
    {dt \in [year : {ClosingDate.year - 1, ClosingDate.year}, month : 1..12, day : 1..31] :
        StrftimeFull(dt) = value}

\* C30: when the aggregated record has a closing date, the mapped date of
\* last payment and date of last charge are dates that are not after the
\* closing date.
C30_LastDatesNotAfterClosing_AsStated ==
    (fpc = "returned" /\ ClosingDate # NoDate) =>
        \A pair \in {<<"last_payment_date", "DATE OF LAST PAYMENT INSERT">>,
                     <<"last_charge_date", "DATE OF LAST CHARGE INSERT">>} :
            pair[1] \in DOMAIN data =>
                /\ DatesOf(formatted[pair[2]].s) # {}
                /\ \A dt \in DatesOf(formatted[pair[2]].s) :
                      dt.year * 10000 + dt.month * 100 + dt.day
                          <= ClosingDate.year * 10000 + ClosingDate.month * 100
                             + ClosingDate.day

=============================================================================
